---- MODULE Spec2Model ----
(***************************************************************************)
(* A model of wintmux: the scrollback ring (package scrollback), the       *)
(* virtual screen (package screen), the escape stripper (package vt) and   *)
(* the session daemon (package daemon).  Strings and byte slices are       *)
(* sequences of byte values; Go objects are records whose fields carry     *)
(* the names of the struct fields.                                         *)
(***************************************************************************)
EXTENDS Integers, Sequences, FiniteSets, TLC

VARIABLES
    buffer,     \* the scrollback.Buffer under test / the daemon's d.buffer
    stream,     \* history: every byte handed to Buffer.Write so far, in order
    lastOp,     \* history: the operation the last step performed, with its argument
    resized,    \* history: some SetCapacity call has changed the capacity
    screen,     \* the screen.Screen under test
    writes,     \* history: the number of Screen.Write calls / pump reads made so far
    pipePaneFile, \* d.pipePaneFile: NilFile or an open file handle
    files,      \* the file system: the bytes of every file a tee has created
    openFiles,  \* the number of tee file handles opened and not yet closed
    pipePaneMu, \* d.pipePaneMu: "free" or the goroutine that holds it
    handlers,   \* the handlePipePane calls in progress: position and request
    mu,         \* the sync.RWMutex of the buffer and of the screen: writer, readers
    calls,      \* the calls in progress on the two goroutines sharing the objects
    settled,    \* history: buffer and screen as the last finished call left them
    construction, \* pty.New in progress: position, arguments, OS handles, error
    client,     \* a run of the wintmux client: command, requests made, exit code
    response,   \* the ipc.Response the last handler returned
    pumpPC,     \* where readOutput stands: "read", "tee" or "done"
    pumpData,   \* readOutput's data := buf[:n] of the chunk in hand
    wire,       \* the bytes of an ipc stream not yet read, oldest first
    sent,       \* history: the messages WriteMessage has put on the stream
    received,   \* history: the messages ReadMessage has returned
    readErr,    \* the outcome of the last ReadMessage call and the bytes it consumed
    terminal,   \* d.terminal: the pseudo console and its child process
    done,       \* d.done is closed
    listener,   \* d.listener: "open" or "closed"
    watchPC,    \* where Daemon.watchProcess stands
    mainPC,     \* where Run stands: the accept loop, the steps of cleanup, returned
    controlFile, \* the control file exists
    trail,      \* history: the shutdown steps taken so far, in order
    conns       \* the requests of accepted connections no handler has served yet

vars == <<buffer, stream, lastOp, resized, screen, writes,
          pipePaneFile, files, openFiles, pipePaneMu, handlers, mu, calls, settled,
          construction, client,
          response, pumpPC, pumpData,
          wire, sent, received, readErr,
          terminal, done, listener, watchPC, mainPC, controlFile, trail, conns>>

ipcVars == <<wire, sent, received, readErr>>

lifeVars == <<terminal, done, listener, watchPC, mainPC, controlFile, trail, conns>>

bufVars == <<buffer, stream, resized>>

scrVars == <<screen, writes>>

concVars == <<mu, calls, settled, construction, client>>

paneVars == <<openFiles, pipePaneMu, handlers, concVars>>

dmnVars == <<pipePaneFile, files, paneVars, response, pumpPC, pumpData>>

-----------------------------------------------------------------------------
(* Bytes the code names. *)

LF == 10
CR == 13
LetterA == 97
LetterB == 98

-----------------------------------------------------------------------------
(* Bounds of the model. *)

\* largest capacity a buffer is created with or resized to
MaxCap == 3
\* longest byte slice handed to one Buffer.Write call
MaxChunk == 2
\* total number of bytes written to a buffer in one behaviour
MaxStream == 5
\* largest n asked of Last / LastWithPartial
MaxAsk == 4
\* columns and rows of the screen under test
ScreenCols == 3
ScreenRows == 3
\* number of Screen.Write calls in one behaviour
MaxWrites == 3
\* number of chunks the output pump reads in one behaviour
MaxPumps == 2
\* number of messages written to one ipc stream in one behaviour
MaxMsgs == 3
\* number of Screen.Write calls in one behaviour of the painting scenario
MaxPaintWrites == 5

-----------------------------------------------------------------------------
(* Helpers of the statements (not code). *)

Min(a, b) == IF a < b THEN a ELSE b

Max(a, b) == IF a > b THEN a ELSE b

\* the last k elements of s (all of s when k >= Len(s))
Suffix(s, k) == SubSeq(s, Len(s) - Min(k, Len(s)) + 1, Len(s))

\* all sequences over S of length lo..hi
SeqsOf(S, lo, hi) == UNION {[1..n -> S] : n \in lo..hi}

-----------------------------------------------------------------------------
(* Go slices: a nil slice and an empty slice are different values. *)

NilSlice == [isNil |-> TRUE, elems |-> <<>>]

Slice(s) == [isNil |-> FALSE, elems |-> s]

\* append(sl, x): appending to a nil slice gives a non-nil one
GoAppend(sl, x) == [isNil |-> FALSE, elems |-> Append(sl.elems, x)]

\* a nil *os.File
NilFile == [isNil |-> TRUE, path |-> <<>>, closed |-> FALSE]

\* pty.New: the terminal of a session whose child runs.  running: the child
\* process lives; exited: the exited channel is closed; closeCalls, teardowns,
\* closeErrs: Close calls made, teardowns performed, calls that returned an
\* error; pipeOut: bytes the child wrote that no Read has taken; ptyIn: bytes
\* written to the child's input; code: the exit code of the process, -2
\* while it runs
NewTerminal(impl) ==
    [impl |-> impl, running |-> TRUE, exited |-> FALSE, code |-> -2,
     closeCalls |-> 0, teardowns |-> 0, closeErrs |-> 0,
     pipeOut |-> <<>>, ptyIn |-> <<>>]

\* no handler has returned yet
NoResponse == [ok |-> FALSE, output |-> <<>>, error |-> "none"]

-----------------------------------------------------------------------------
(* package scrollback *)

DefaultCapacity == 2000

\* scrollback.New
NewBuffer(cap) ==
    LET c == IF cap <= 0 THEN DefaultCapacity ELSE cap
    IN  [lines    |-> [i \in 1..c |-> <<>>],
         capacity |-> c,
         head     |-> 0,
         count    |-> 0,
         partial  |-> <<>>]

\* commitLine without the cap on count
commitLine_Uncapped(b) ==
    [b EXCEPT !.lines   = [b.lines EXCEPT ![b.head + 1] = b.partial],
              !.partial = <<>>,
              !.head    = (b.head + 1) % b.capacity,
              !.count   = b.count + 1]

\* Buffer.commitLine: lines[head] = partial; head advances modulo capacity
commitLine(b) ==
    [b EXCEPT !.lines   = [b.lines EXCEPT ![b.head + 1] = b.partial],
              !.partial = <<>>,
              !.head    = (b.head + 1) % b.capacity,
              !.count   = IF b.count < b.capacity THEN b.count + 1 ELSE b.count]

\* the body of the loop of Buffer.Write for one byte c
BufferWriteByte(b, c) ==
    IF c = LF THEN commitLine(b)
    ELSE IF c = CR THEN b
    ELSE [b EXCEPT !.partial = Append(b.partial, c)]

RECURSIVE BufferWrite(_, _)
\* Buffer.Write: the bytes of data, first to last
BufferWrite(b, data) ==
    IF data = <<>> THEN b
    ELSE BufferWrite(BufferWriteByte(b, Head(data)), Tail(data))

\* getLinesLocked starting at the oldest line held instead of the n-th newest
getLinesLocked_FromOldest(b, n) ==
    IF n <= 0 THEN NilSlice
    ELSE LET m     == IF n > b.count THEN b.count ELSE n
             start == (b.head - b.count + b.capacity) % b.capacity
         IN  Slice([i \in 1..m |-> b.lines[((start + i - 1) % b.capacity) + 1]])

\* Buffer.getLinesLocked
getLinesLocked(b, n) ==
    IF n <= 0 THEN NilSlice
    ELSE LET m     == IF n > b.count THEN b.count ELSE n
             start == (b.head - m + b.capacity) % b.capacity
         IN  Slice([i \in 1..m |-> b.lines[((start + i - 1) % b.capacity) + 1]])

\* Buffer.Last
Last(b, n) == getLinesLocked(b, n)

\* LastWithPartial that does not give up a committed line for the partial
LastWithPartial_NoReserve(b, n) ==
    IF n <= 0 THEN NilSlice
    ELSE LET hasPartial == Len(b.partial) > 0
             result     == getLinesLocked(b, n)
         IN  IF hasPartial THEN GoAppend(result, b.partial) ELSE result

\* Buffer.LastWithPartial
LastWithPartial(b, n) ==
    IF n <= 0 THEN NilSlice
    ELSE LET hasPartial == Len(b.partial) > 0
             committed  == IF hasPartial THEN n - 1 ELSE n
             result     == getLinesLocked(b, committed)
         IN  IF hasPartial THEN GoAppend(result, b.partial) ELSE result

RECURSIVE Recommit(_, _)
\* the re-commit loop of Buffer.SetCapacity over old[start:]
Recommit(b, old) ==
    IF old = <<>> THEN b
    ELSE Recommit([b EXCEPT !.lines = [b.lines EXCEPT ![b.head + 1] = Head(old)],
                            !.head  = (b.head + 1) % b.capacity,
                            !.count = b.count + 1],
                  Tail(old))

\* SetCapacity keeping the oldest lines instead of the newest
SetCapacity_KeepOldest(b, n) ==
    IF n <= 0 \/ n = b.capacity THEN b
    ELSE LET old   == getLinesLocked(b, b.count).elems
             fresh == [lines    |-> [i \in 1..n |-> <<>>],
                       capacity |-> n,
                       head     |-> 0,
                       count    |-> 0,
                       partial  |-> b.partial]
         IN  Recommit(fresh, SubSeq(old, 1, Min(n, Len(old))))

\* Buffer.SetCapacity
SetCapacity(b, n) ==
    IF n <= 0 \/ n = b.capacity THEN b
    ELSE LET old   == getLinesLocked(b, b.count).elems
             start == IF Len(old) > n THEN Len(old) - n ELSE 0
             fresh == [lines    |-> [i \in 1..n |-> <<>>],
                       capacity |-> n,
                       head     |-> 0,
                       count    |-> 0,
                       partial  |-> b.partial]
         IN  Recommit(fresh, SubSeq(old, start + 1, Len(old)))

\* Buffer.Count
Count(b) == b.count

\* Buffer.Capacity
Capacity(b) == b.capacity

-----------------------------------------------------------------------------
(* Go integers.  The code runs with 64-bit ints; the model keeps two's      *)
(* complement wrap-around at a narrower word, IntBits bits wide.           *)

\* width of the model's machine integer
IntBits == 12

RECURSIVE Pow2(_)
Pow2(n) == IF n = 0 THEN 1 ELSE 2 * Pow2(n - 1)

MaxInt == Pow2(IntBits - 1) - 1

\* the value a Go int holds after an addition or subtraction giving x
WrapInt(x) == ((x + Pow2(IntBits - 1)) % Pow2(IntBits)) - Pow2(IntBits - 1)

\* Go's integer division truncates toward zero
GoDiv(a, b) == IF a >= 0 THEN a \div b ELSE -((-a) \div b)

-----------------------------------------------------------------------------
(* unicode/utf8, as package screen uses it *)

RuneError == 65533

IsCont(b) == b >= 128 /\ b <= 191

\* utf8.DecodeRune(p): the rune and the number of bytes it takes;
\* (RuneError, 0) for empty input, (RuneError, 1) for a bad or short encoding
DecodeRune(p) ==
    LET bad == [r |-> RuneError, size |-> 1]
        b0  == p[1]
        b1  == p[2]
        b2  == p[3]
        b3  == p[4]
    IN  IF Len(p) = 0 THEN [r |-> RuneError, size |-> 0]
        ELSE IF b0 < 128 THEN [r |-> b0, size |-> 1]
        ELSE IF b0 < 194 \/ b0 > 244 THEN bad
        ELSE IF b0 < 224 THEN
            IF Len(p) >= 2 /\ IsCont(b1)
            THEN [r |-> (b0 - 192) * 64 + (b1 - 128), size |-> 2]
            ELSE bad
        ELSE IF b0 < 240 THEN
            IF /\ Len(p) >= 3
               /\ b1 >= (IF b0 = 224 THEN 160 ELSE 128)
               /\ b1 <= (IF b0 = 237 THEN 159 ELSE 191)
               /\ IsCont(b2)
            THEN [r |-> (b0 - 224) * 4096 + (b1 - 128) * 64 + (b2 - 128), size |-> 3]
            ELSE bad
        ELSE
            IF /\ Len(p) >= 4
               /\ b1 >= (IF b0 = 240 THEN 144 ELSE 128)
               /\ b1 <= (IF b0 = 244 THEN 143 ELSE 191)
               /\ IsCont(b2)
               /\ IsCont(b3)
            THEN [r |-> (b0 - 240) * 262144 + (b1 - 128) * 4096
                          + (b2 - 128) * 64 + (b3 - 128), size |-> 4]
            ELSE bad

\* the UTF-8 bytes of one rune, as string([]rune) produces them
EncodeRune(r) ==
    IF r < 0 \/ r > 1114111 \/ (r >= 55296 /\ r <= 57343) THEN <<239, 191, 189>>
    ELSE IF r < 128 THEN <<r>>
    ELSE IF r < 2048 THEN <<192 + (r \div 64), 128 + (r % 64)>>
    ELSE IF r < 65536 THEN
        <<224 + (r \div 4096), 128 + ((r \div 64) % 64), 128 + (r % 64)>>
    ELSE <<240 + (r \div 262144), 128 + ((r \div 4096) % 64),
           128 + ((r \div 64) % 64), 128 + (r % 64)>>

RECURSIVE RunesToString(_)
\* string(row) for a []rune
RunesToString(row) ==
    IF row = <<>> THEN <<>>
    ELSE EncodeRune(Head(row)) \o RunesToString(Tail(row))

-----------------------------------------------------------------------------
(* package screen: the grid *)

SP == 32
ESC == 27
BEL == 7
BS == 8
HT == 9
DEL == 127

\* screen.makeRow
makeRow(cols) == [j \in 1..cols |-> SP]

\* screen.newGrid
newGrid(cols, rows) ==
    [grid         |-> [i \in 1..rows |-> makeRow(cols)],
     row          |-> 0,
     col          |-> 0,
     scrollTop    |-> 0,
     scrollBottom |-> rows - 1,
     savedRow     |-> 0,
     savedCol     |-> 0]

\* screen.New; panicked records that a Write died on an index out of range
NewScreen(cols, rows) ==
    [cols     |-> cols,
     rows     |-> rows,
     main     |-> newGrid(cols, rows),
     alt      |-> newGrid(cols, rows),
     inAlt    |-> FALSE,
     pState   |-> "psNorm",
     pBuf     |-> <<>>,
     uBuf     |-> <<>>,
     panicked |-> FALSE]

\* Screen.st: the grid state the operations act on
st(s) == IF s.inAlt THEN s.alt ELSE s.main

\* st() handing out the main grid whatever inAlt says
setSt_AlwaysMain(s, g) == [s EXCEPT !.main = g]

\* an assignment through the pointer st() returns
setSt(s, g) == IF s.inAlt THEN [s EXCEPT !.alt = g] ELSE [s EXCEPT !.main = g]

\* a slice index out of range: the runtime panics
Panic(s) == [s EXCEPT !.panicked = TRUE]

RowOK(s, r) == r >= 0 /\ r < s.rows

ColOK(s, c) == c >= 0 /\ c < s.cols

\* screen.clamp
clamp(v, lo, hi) == IF v < lo THEN lo ELSE IF v > hi THEN hi ELSE v

\* screen.max0
max0(a, b) == IF a > b THEN a ELSE b

\* screen.min0
min0(a, b) == IF a < b THEN a ELSE b

\* scrollUp moving every row of the screen, whatever the scroll region is
scrollUp_WholeScreen(s, n0) ==
    LET g      == st(s)
        top    == 0
        bottom == s.rows - 1
        span   == bottom - top + 1
        n      == IF n0 > span THEN span ELSE n0
        grid2  == [i \in 1..s.rows |->
                     LET r == i - 1
                     IN  IF r >= top /\ r <= bottom - n THEN g.grid[i + n]
                         ELSE IF r >= bottom - n + 1 /\ r <= bottom THEN makeRow(s.cols)
                         ELSE g.grid[i]]
    IN  setSt(s, [g EXCEPT !.grid = grid2])

\* Screen.scrollUp: rows top..bottom-n take the row n below, the last n are blank
scrollUp(s, n0) ==
    LET g      == st(s)
        top    == g.scrollTop
        bottom == g.scrollBottom
        span   == bottom - top + 1
        n      == IF n0 > span THEN span ELSE n0
        grid2  == [i \in 1..s.rows |->
                     LET r == i - 1
                     IN  IF r >= top /\ r <= bottom - n THEN g.grid[i + n]
                         ELSE IF r >= bottom - n + 1 /\ r <= bottom THEN makeRow(s.cols)
                         ELSE g.grid[i]]
    IN  setSt(s, [g EXCEPT !.grid = grid2])

\* Screen.scrollDown: rows top+n..bottom take the row n above, the first n are blank
scrollDown(s, n0) ==
    LET g      == st(s)
        top    == g.scrollTop
        bottom == g.scrollBottom
        span   == bottom - top + 1
        n      == IF n0 > span THEN span ELSE n0
        grid2  == [i \in 1..s.rows |->
                     LET r == i - 1
                     IN  IF r >= top + n /\ r <= bottom THEN g.grid[i - n]
                         ELSE IF r >= top /\ r < top + n THEN makeRow(s.cols)
                         ELSE g.grid[i]]
    IN  setSt(s, [g EXCEPT !.grid = grid2])

\* Screen.linefeed
linefeed(s) ==
    LET g == st(s)
    IN  IF g.row = g.scrollBottom THEN scrollUp(s, 1)
        ELSE IF g.row < s.rows - 1 THEN setSt(s, [g EXCEPT !.row = g.row + 1])
        ELSE s

\* Screen.reverseIndex
reverseIndex(s) ==
    LET g == st(s)
    IN  IF g.row = g.scrollTop THEN scrollDown(s, 1)
        ELSE IF g.row > 0 THEN setSt(s, [g EXCEPT !.row = g.row - 1])
        ELSE s

\* Screen.insertLines
insertLines(s, n) ==
    LET g == st(s)
    IN  IF g.row < g.scrollTop \/ g.row > g.scrollBottom THEN s
        ELSE LET s1 == scrollDown(setSt(s, [g EXCEPT !.scrollTop = g.row]), n)
             IN  setSt(s1, [st(s1) EXCEPT !.scrollTop = g.scrollTop, !.col = 0])

\* Screen.deleteLines
deleteLines(s, n) ==
    LET g == st(s)
    IN  IF g.row < g.scrollTop \/ g.row > g.scrollBottom THEN s
        ELSE LET s1 == scrollUp(setSt(s, [g EXCEPT !.scrollTop = g.row]), n)
             IN  setSt(s1, [st(s1) EXCEPT !.scrollTop = g.scrollTop, !.col = 0])

\* Screen.putRune
putRune(s, r) ==
    LET s1 == IF st(s).col >= s.cols
              THEN linefeed(setSt(s, [st(s) EXCEPT !.col = 0]))
              ELSE s
        g  == st(s1)
    IN  IF ~RowOK(s1, g.row) \/ ~ColOK(s1, g.col) THEN Panic(s1)
        ELSE setSt(s1, [g EXCEPT !.grid[g.row + 1][g.col + 1] = r,
                                 !.col = g.col + 1])

\* cells lo..hi (0-based, inclusive) of a row set to spaces
blankCells(row, lo, hi) ==
    [j \in 1..Len(row) |-> IF j - 1 >= lo /\ j - 1 <= hi THEN SP ELSE row[j]]

\* Screen.insertChars: cells from the cursor move n to the right
insertChars(s, n) ==
    LET g     == st(s)
        lim   == WrapInt(g.col + n)
        moved == {i \in 0..(s.cols - 1) : i >= lim}
        fills == {i \in 0..(s.cols - 1) : i >= g.col /\ i < lim}
        row   == g.grid[g.row + 1]
        row2  == [j \in 1..s.cols |->
                    IF (j - 1) \in fills THEN SP
                    ELSE IF (j - 1) \in moved THEN row[j - n]
                    ELSE row[j]]
    IN  IF ~RowOK(s, g.row) THEN Panic(s)
        ELSE IF \E i \in moved : i - n < 0 THEN Panic(s)
        ELSE IF g.col < lim /\ g.col < 0 THEN Panic(s)
        ELSE setSt(s, [g EXCEPT !.grid[g.row + 1] = row2])

\* Screen.deleteChars: cells right of the cursor move n to the left, and the
\* last n cells of the row are blanked
deleteChars(s, n) ==
    LET g    == st(s)
        row  == g.grid[g.row + 1]
        row2 == [j \in 1..s.cols |->
                    IF j - 1 >= s.cols - n THEN SP
                    ELSE IF j - 1 >= g.col THEN row[j + n]
                    ELSE row[j]]
    IN  IF ~RowOK(s, g.row) THEN Panic(s)
        ELSE IF g.col < s.cols - n /\ g.col < 0 THEN Panic(s)
        ELSE setSt(s, [g EXCEPT !.grid[g.row + 1] = row2])

\* the ECH loop of Screen.execCSI (case 'X')
eraseChars(s, n) ==
    LET g == st(s)
    IN  IF ~(n > 0 /\ g.col < s.cols) THEN s
        ELSE IF ~RowOK(s, g.row) \/ g.col < 0 THEN Panic(s)
        ELSE setSt(s, [g EXCEPT !.grid[g.row + 1] =
                            blankCells(@, g.col, g.col + n - 1)])

\* eraseLine erasing from the cursor to the end of the line in every mode
eraseLine_RightOnly(s, mode) ==
    LET g == st(s)
    IN  IF g.col >= s.cols \/ g.col < 0 \/ ~RowOK(s, g.row) THEN s
        ELSE setSt(s, [g EXCEPT !.grid[g.row + 1] = blankCells(@, g.col, s.cols - 1)])

\* Screen.eraseLine
eraseLine(s, mode) ==
    LET g == st(s)
    IN  IF mode = 0 THEN
            IF g.col >= s.cols THEN s
            ELSE IF ~RowOK(s, g.row) \/ g.col < 0 THEN Panic(s)
            ELSE setSt(s, [g EXCEPT !.grid[g.row + 1] = blankCells(@, g.col, s.cols - 1)])
        ELSE IF mode = 1 THEN
            IF g.col < 0 THEN s
            ELSE IF ~RowOK(s, g.row) THEN Panic(s)
            ELSE setSt(s, [g EXCEPT !.grid[g.row + 1] = blankCells(@, 0, g.col)])
        ELSE IF mode = 2 THEN
            IF ~RowOK(s, g.row) THEN Panic(s)
            ELSE setSt(s, [g EXCEPT !.grid[g.row + 1] = makeRow(s.cols)])
        ELSE s

\* Screen.eraseDisplay
eraseDisplay(s, mode) ==
    LET g == st(s)
    IN  IF mode = 0 THEN
            IF g.col < s.cols /\ (~RowOK(s, g.row) \/ g.col < 0) THEN Panic(s)
            ELSE IF WrapInt(g.row + 1) < 0 THEN Panic(s)
            ELSE setSt(s, [g EXCEPT !.grid =
                    [i \in 1..s.rows |->
                        IF i - 1 > g.row THEN makeRow(s.cols)
                        ELSE IF i - 1 = g.row THEN blankCells(g.grid[i], g.col, s.cols - 1)
                        ELSE g.grid[i]]])
        ELSE IF mode = 1 THEN
            IF g.row > s.rows THEN Panic(s)
            ELSE IF g.col >= 0 /\ ~RowOK(s, g.row) THEN Panic(s)
            ELSE setSt(s, [g EXCEPT !.grid =
                    [i \in 1..s.rows |->
                        IF i - 1 < g.row THEN makeRow(s.cols)
                        ELSE IF i - 1 = g.row THEN blankCells(g.grid[i], 0, g.col)
                        ELSE g.grid[i]]])
        ELSE IF mode = 2 \/ mode = 3 THEN
            setSt(s, [g EXCEPT !.grid = [i \in 1..s.rows |-> makeRow(s.cols)]])
        ELSE s

-----------------------------------------------------------------------------
(* package screen: parameters *)

Digit0 == 48
Digit9 == 57
Semicolon == 59
Question == 63

RECURSIVE AtoiDigits(_, _)
\* the digits of p on top of acc; -1 once a byte is no digit or the value
\* leaves the int range
AtoiDigits(p, acc) ==
    IF p = <<>> THEN acc
    ELSE IF Head(p) < Digit0 \/ Head(p) > Digit9 THEN -1
    ELSE IF acc * 10 + (Head(p) - Digit0) > MaxInt THEN -1
    ELSE AtoiDigits(Tail(p), acc * 10 + (Head(p) - Digit0))

\* strconv.Atoi on a string of parameter bytes (digits, ';' and '?'): the
\* value, and 0 with ok = FALSE on a syntax or range error as far as the
\* callers can tell (each tests err or compares the result with a mode number)
Atoi(p) ==
    LET v == IF p = <<>> THEN -1 ELSE AtoiDigits(p, 0)
    IN  IF v < 0 THEN [ok |-> FALSE, n |-> 0] ELSE [ok |-> TRUE, n |-> v]

RECURSIVE Split(_, _)
\* strings.Split(p, sep) for a one-byte separator
Split(p, sep) ==
    IF \A i \in 1..Len(p) : p[i] # sep THEN <<p>>
    ELSE LET k == CHOOSE i \in 1..Len(p) :
                     p[i] = sep /\ \A j \in 1..(i - 1) : p[j] # sep
         IN  <<SubSeq(p, 1, k - 1)>> \o Split(SubSeq(p, k + 1, Len(p)), sep)

\* strings.SplitN(p, sep, 2)
SplitN2(p, sep) ==
    IF \A i \in 1..Len(p) : p[i] # sep THEN <<p>>
    ELSE LET k == CHOOSE i \in 1..Len(p) :
                     p[i] = sep /\ \A j \in 1..(i - 1) : p[j] # sep
         IN  <<SubSeq(p, 1, k - 1), SubSeq(p, k + 1, Len(p))>>

\* screen.parseOne
parseOne(params, def) ==
    LET p == IF params # <<>> /\ Head(params) = Question THEN Tail(params) ELSE params
        a == Atoi(p)
    IN  IF p = <<>> THEN def
        ELSE IF ~a.ok \/ a.n = 0 THEN def
        ELSE a.n

\* screen.parseTwo
parseTwo(params, def1, def2) ==
    LET parts == SplitN2(params, Semicolon)
        a1    == Atoi(parts[1])
        a2    == Atoi(parts[2])
    IN  <<IF parts[1] # <<>> /\ a1.ok /\ a1.n > 0 THEN a1.n ELSE def1,
          IF Len(parts) >= 2 /\ parts[2] # <<>> /\ a2.ok /\ a2.n > 0 THEN a2.n ELSE def2>>

RECURSIVE setPrivateModes(_, _, _)
\* the loop of Screen.setPrivateMode over the split parameters
setPrivateModes(s, parts, set) ==
    IF parts = <<>> THEN s
    ELSE LET n  == Atoi(Head(parts)).n
             s1 == IF n \in {47, 1047, 1049} THEN
                       IF set /\ ~s.inAlt
                       THEN [s EXCEPT !.inAlt = TRUE, !.alt = newGrid(s.cols, s.rows)]
                       ELSE IF ~set /\ s.inAlt THEN [s EXCEPT !.inAlt = FALSE]
                       ELSE s
                   ELSE s
         IN  setPrivateModes(s1, Tail(parts), set)

\* Screen.setPrivateMode
setPrivateMode(s, params, set) == setPrivateModes(s, Split(params, Semicolon), set)

-----------------------------------------------------------------------------
(* package screen: the parser *)

\* Screen.execCSI
execCSI(s, final, params) ==
    LET g  == st(s)
        n1 == parseOne(params, 1)
        n0 == parseOne(params, 0)
        rc == parseTwo(params, 1, 1)
        tb == parseTwo(params, 1, s.rows)
    IN  CASE final \in {72, 102} ->                                   \* H, f
               setSt(s, [g EXCEPT !.row = clamp(rc[1] - 1, 0, s.rows - 1),
                                  !.col = clamp(rc[2] - 1, 0, s.cols - 1)])
          [] final = 65 ->                                            \* A
               setSt(s, [g EXCEPT !.row = max0(WrapInt(g.row - n1), g.scrollTop)])
          [] final = 66 ->                                            \* B
               setSt(s, [g EXCEPT !.row = min0(WrapInt(g.row + n1), g.scrollBottom)])
          [] final = 67 ->                                            \* C
               setSt(s, [g EXCEPT !.col = min0(WrapInt(g.col + n1), s.cols - 1)])
          [] final = 68 ->                                            \* D
               setSt(s, [g EXCEPT !.col = max0(WrapInt(g.col - n1), 0)])
          [] final = 69 ->                                            \* E
               setSt(s, [g EXCEPT !.row = min0(WrapInt(g.row + n1), g.scrollBottom),
                                  !.col = 0])
          [] final = 70 ->                                            \* F
               setSt(s, [g EXCEPT !.row = max0(WrapInt(g.row - n1), g.scrollTop),
                                  !.col = 0])
          [] final = 71 ->                                            \* G
               setSt(s, [g EXCEPT !.col = clamp(n1 - 1, 0, s.cols - 1)])
          [] final = 100 ->                                           \* d
               setSt(s, [g EXCEPT !.row = clamp(n1 - 1, 0, s.rows - 1)])
          [] final = 74 -> eraseDisplay(s, n0)                        \* J
          [] final = 75 -> eraseLine(s, n0)                           \* K
          [] final = 88 -> eraseChars(s, n1)                          \* X
          [] final = 76 -> insertLines(s, n1)                         \* L
          [] final = 77 -> deleteLines(s, n1)                         \* M
          [] final = 64 -> insertChars(s, n1)                         \* @
          [] final = 80 -> deleteChars(s, n1)                         \* P
          [] final = 83 -> scrollUp(s, n1)                            \* S
          [] final = 84 -> scrollDown(s, n1)                          \* T
          [] final = 114 ->                                           \* r
               setSt(s, [g EXCEPT !.scrollTop    = clamp(tb[1] - 1, 0, s.rows - 1),
                                  !.scrollBottom = clamp(tb[2] - 1, 0, s.rows - 1),
                                  !.row          = clamp(tb[1] - 1, 0, s.rows - 1),
                                  !.col          = 0])
          [] final = 104 ->                                           \* h
               IF Len(params) > 0 /\ params[1] = Question
               THEN setPrivateMode(s, Tail(params), TRUE) ELSE s
          [] final = 108 ->                                           \* l
               IF Len(params) > 0 /\ params[1] = Question
               THEN setPrivateMode(s, Tail(params), FALSE) ELSE s
          [] final = 115 ->                                           \* s
               setSt(s, [g EXCEPT !.savedRow = g.row, !.savedCol = g.col])
          [] final = 117 ->                                           \* u
               setSt(s, [g EXCEPT !.row = g.savedRow, !.col = g.savedCol])
          [] OTHER -> s                                               \* m n c q, others

\* Screen.feedCtrl
feedCtrl(s, b) ==
    LET g == st(s)
    IN  CASE b = ESC -> [s EXCEPT !.pState = "psEsc", !.pBuf = <<>>]
          [] b = CR  -> setSt(s, [g EXCEPT !.col = 0])
          [] b = LF  -> linefeed(s)
          [] b = BS  -> IF g.col > 0 THEN setSt(s, [g EXCEPT !.col = g.col - 1]) ELSE s
          [] b = HT  ->
               LET c == WrapInt((GoDiv(g.col, 8) + 1) * 8)
               IN  setSt(s, [g EXCEPT !.col = IF c >= s.cols THEN s.cols - 1 ELSE c])
          [] OTHER   -> s

\* feedEsc with BEL taken as one more byte of an OSC string
feedEsc_BelInsideOsc(s, b) ==
    CASE s.pState = "psEsc" ->
           (CASE b = 91 -> [s EXCEPT !.pState = "psCSI", !.pBuf = <<>>]       \* [
              [] b = 93 -> [s EXCEPT !.pState = "psOSC", !.pBuf = <<>>]       \* ]
              [] b = 77 -> [reverseIndex(s) EXCEPT !.pState = "psNorm"]       \* M
              [] b = 55 ->                                                    \* 7
                   [setSt(s, [st(s) EXCEPT !.savedRow = st(s).row,
                                           !.savedCol = st(s).col])
                      EXCEPT !.pState = "psNorm"]
              [] b = 56 ->                                                    \* 8
                   [setSt(s, [st(s) EXCEPT !.row = st(s).savedRow,
                                           !.col = st(s).savedCol])
                      EXCEPT !.pState = "psNorm"]
              [] b \in {40, 41} -> [s EXCEPT !.pState = "psEscSkip"]          \* ( )
              [] OTHER -> [s EXCEPT !.pState = "psNorm"])
      [] s.pState = "psCSI" ->
           IF (b >= Digit0 /\ b <= Digit9) \/ b = Semicolon \/ b = Question
           THEN [s EXCEPT !.pBuf = Append(s.pBuf, b)]
           ELSE execCSI([s EXCEPT !.pState = "psNorm", !.pBuf = <<>>], b, s.pBuf)
      [] s.pState = "psOSC" ->
           IF b = BEL THEN s
           ELSE IF b = ESC THEN [s EXCEPT !.pState = "psOSCEsc"]
           ELSE s
      [] s.pState = "psOSCEsc" -> [s EXCEPT !.pState = "psNorm", !.pBuf = <<>>]
      [] s.pState = "psEscSkip" -> [s EXCEPT !.pState = "psNorm"]
      [] OTHER -> s

\* Screen.feedEsc
feedEsc(s, b) ==
    CASE s.pState = "psEsc" ->
           (CASE b = 91 -> [s EXCEPT !.pState = "psCSI", !.pBuf = <<>>]       \* [
              [] b = 93 -> [s EXCEPT !.pState = "psOSC", !.pBuf = <<>>]       \* ]
              [] b = 77 -> [reverseIndex(s) EXCEPT !.pState = "psNorm"]       \* M
              [] b = 55 ->                                                    \* 7
                   [setSt(s, [st(s) EXCEPT !.savedRow = st(s).row,
                                           !.savedCol = st(s).col])
                      EXCEPT !.pState = "psNorm"]
              [] b = 56 ->                                                    \* 8
                   [setSt(s, [st(s) EXCEPT !.row = st(s).savedRow,
                                           !.col = st(s).savedCol])
                      EXCEPT !.pState = "psNorm"]
              [] b \in {40, 41} -> [s EXCEPT !.pState = "psEscSkip"]          \* ( )
              [] OTHER -> [s EXCEPT !.pState = "psNorm"])
      [] s.pState = "psCSI" ->
           IF (b >= Digit0 /\ b <= Digit9) \/ b = Semicolon \/ b = Question
           THEN [s EXCEPT !.pBuf = Append(s.pBuf, b)]
           ELSE execCSI([s EXCEPT !.pState = "psNorm", !.pBuf = <<>>], b, s.pBuf)
      [] s.pState = "psOSC" ->
           IF b = BEL THEN [s EXCEPT !.pState = "psNorm", !.pBuf = <<>>]
           ELSE IF b = ESC THEN [s EXCEPT !.pState = "psOSCEsc"]
           ELSE s
      [] s.pState = "psOSCEsc" -> [s EXCEPT !.pState = "psNorm", !.pBuf = <<>>]
      [] s.pState = "psEscSkip" -> [s EXCEPT !.pState = "psNorm"]
      [] OTHER -> s

RECURSIVE WriteLoop(_, _)
\* the loop of Screen.Write over data[i:]; a panic ends the call
WriteLoop(s, data) ==
    IF s.panicked \/ data = <<>> THEN s
    ELSE LET b == Head(data)
             d == DecodeRune(data)
         IN  IF s.pState # "psNorm" THEN WriteLoop(feedEsc(s, b), Tail(data))
             ELSE IF b < 32 \/ b = DEL THEN WriteLoop(feedCtrl(s, b), Tail(data))
             ELSE IF b < 128 THEN WriteLoop(putRune(s, b), Tail(data))
             ELSE IF d.r = RuneError /\ d.size <= 1 THEN
                 IF Len(data) < 4 THEN [s EXCEPT !.uBuf = data]
                 ELSE WriteLoop(s, Tail(data))
             ELSE WriteLoop(putRune(s, d.r), SubSeq(data, d.size + 1, Len(data)))

\* Write dropping the bytes it held back instead of prepending them
ScreenWrite_ForgetsHeld(s, data) == WriteLoop([s EXCEPT !.uBuf = <<>>], data)

\* Screen.Write
ScreenWrite(s, data) ==
    IF Len(s.uBuf) > 0
    THEN WriteLoop([s EXCEPT !.uBuf = <<>>], s.uBuf \o data)
    ELSE WriteLoop(s, data)

RECURSIVE TrimRightSpaces(_)
\* strings.TrimRight(str, " ")
TrimRightSpaces(str) ==
    IF str # <<>> /\ str[Len(str)] = SP
    THEN TrimRightSpaces(SubSeq(str, 1, Len(str) - 1))
    ELSE str

\* Capture taking the top rows instead of the bottom ones
Capture_FromTop(s, maxLines) ==
    LET g == st(s)
        n == IF maxLines > 0 /\ maxLines < s.rows THEN maxLines ELSE s.rows
    IN  [k \in 1..n |-> TrimRightSpaces(RunesToString(g.grid[k]))]

\* Screen.Capture
Capture(s, maxLines) ==
    LET g     == st(s)
        n     == IF maxLines > 0 /\ maxLines < s.rows THEN maxLines ELSE s.rows
        start == s.rows - n
    IN  [k \in 1..n |-> TrimRightSpaces(RunesToString(g.grid[start + k]))]

-----------------------------------------------------------------------------
(* The scrollback buffer driven by its callers: Write with any chunk, and  *)
(* SetCapacity with any argument.                                          *)

BufferBytes == {LF, CR, LetterA, LetterB}

\* no ipc stream in use
NoIpc ==
    /\ wire = [bytes |-> <<>>, pad |-> 0]
    /\ sent = <<>>
    /\ received = <<>>
    /\ readErr = [err |-> "none", consumed |-> 0]

\* no session running
NoSession ==
    /\ terminal = [impl |-> "none", running |-> FALSE, exited |-> FALSE, code |-> -2,
                   closeCalls |-> 0, teardowns |-> 0, closeErrs |-> 0,
                   pipeOut |-> <<>>, ptyIn |-> <<>>]
    /\ done = FALSE
    /\ listener = "closed"
    /\ watchPC = "none"
    /\ mainPC = "none"
    /\ controlFile = FALSE
    /\ trail = <<>>
    /\ conns = {}

\* a free sync.RWMutex
FreeMutex == [writer |-> FALSE, readers |-> 0]

\* a goroutine that is in no call
Idle == [pc |-> "idle"]

\* the objects are used from one goroutine at a time
NoCalls ==
    /\ mu = [buffer |-> FreeMutex, screen |-> FreeMutex]
    /\ calls = [writer |-> Idle, reader |-> Idle]
    /\ settled = <<>>
    /\ construction = <<>>
    /\ client = <<>>

\* no daemon around the object under test
NoDaemon ==
    /\ NoIpc
    /\ NoSession
    /\ pipePaneFile = NilFile
    /\ files = <<>>
    /\ openFiles = 0
    /\ pipePaneMu = "free"
    /\ handlers = <<>>
    /\ NoCalls
    /\ response = NoResponse
    /\ pumpPC = "done"
    /\ pumpData = <<>>

BufferInit ==
    /\ NoDaemon
    /\ \E c \in 1..MaxCap : buffer = NewBuffer(c)
    /\ stream = <<>>
    /\ lastOp = [op |-> "New", arg |-> 0, cap |-> 0]
    /\ resized = FALSE
    /\ screen = NewScreen(ScreenCols, ScreenRows)
    /\ writes = 0

DoBufferWrite ==
    \E data \in SeqsOf(BufferBytes, 1, MaxChunk) :
        /\ Len(stream) + Len(data) <= MaxStream
        /\ buffer' = BufferWrite(buffer, data)
        /\ stream' = stream \o data
        /\ lastOp' = [op |-> "Write", arg |-> Len(data), cap |-> buffer.capacity]
        /\ UNCHANGED <<resized, scrVars, dmnVars, ipcVars, lifeVars>>

DoSetCapacity ==
    \E n \in -1..MaxCap :
        /\ buffer' = SetCapacity(buffer, n)
        /\ lastOp' = [op |-> "SetCapacity", arg |-> n, cap |-> buffer.capacity]
        /\ resized' = (resized \/ buffer'.capacity # buffer.capacity)
        /\ UNCHANGED <<stream, scrVars, dmnVars, ipcVars, lifeVars>>

BufferNext == DoBufferWrite \/ DoSetCapacity

SpecBuffer == BufferInit /\ [][BufferNext]_vars

-----------------------------------------------------------------------------
(* The screen driven by its writer: each step is one Screen.Write call.    *)

RECURSIVE Digits(_)
\* the decimal digits of n >= 0 as bytes
Digits(n) == IF n < 10 THEN <<Digit0 + n>> ELSE Digits(n \div 10) \o <<Digit0 + (n % 10)>>

\* ESC [ params final
Csi(params, final) == <<ESC, 91>> \o params \o <<final>>

\* parameter strings: absent, 0, in range, past the grid, the largest int,
\* one past the largest int
OneParams == {<<>>, Digits(0), Digits(2), Digits(ScreenRows + 1), Digits(MaxInt)}

TwoParams == {<<>>, Digits(2) \o <<Semicolon>> \o Digits(3),
              Digits(3) \o <<Semicolon>> \o Digits(1),
              <<Semicolon>> \o Digits(2),
              Digits(MaxInt) \o <<Semicolon>> \o Digits(MaxInt)}

ModeParams == {<<Question>> \o Digits(1049), <<Question>> \o Digits(47),
               <<Question>> \o Digits(25) \o <<Semicolon>> \o Digits(1047),
               Digits(4)}

\* final bytes taking one parameter: A B C D G d J K X L M @ P S T
OneFinals == {65, 66, 67, 68, 71, 100, 74, 75, 88, 76, 77, 64, 80, 83, 84}

ScreenInputs ==
    {<<LetterA>>, <<SP>>, <<195, 169>>, <<195>>, <<255>>,
     <<CR>>, <<LF>>, <<BS>>, <<HT>>, <<BEL>>, <<ESC>>,
     <<ESC, 55>>, <<ESC, 56>>, <<ESC, 77>>, <<ESC, 40, 66>>, <<ESC, 99>>,
     <<ESC, 93, 48, Semicolon, 116, BEL>>, <<ESC, 93, 116, ESC, 92>>}
    \cup {Csi(p, f) : p \in OneParams, f \in OneFinals}
    \cup {Csi(p, f) : p \in {<<>>, Digits(2), Digits(MaxInt)}, f \in {69, 70}}
    \cup {Csi(Digits(MaxInt + 1), f) : f \in {66, 74}}
    \cup {Csi(p, 72) : p \in TwoParams}
    \cup {Csi(p, 114) : p \in TwoParams}
    \cup {Csi(p, 102) : p \in {<<>>, Digits(2) \o <<Semicolon>> \o Digits(3)}}
    \cup {Csi(p, f) : p \in ModeParams, f \in {104, 108}}
    \cup {Csi(<<>>, f) : f \in {115, 117, 109, 110, 99, 113, 126}}
    \cup {Csi(Digits(2), 109)}

ScreenInit ==
    /\ NoDaemon
    /\ screen = NewScreen(ScreenCols, ScreenRows)
    /\ writes = 0
    /\ buffer = NewBuffer(1)
    /\ stream = <<>>
    /\ resized = FALSE
    /\ lastOp = [op |-> "New", arg |-> 0, cap |-> 0]

\* one Screen.Write call; a screen whose Write has panicked takes no more
DoWrite(data) ==
    /\ ~screen.panicked
    /\ screen' = ScreenWrite(screen, data)
    /\ writes' = writes + 1
    /\ UNCHANGED <<bufVars, lastOp, dmnVars, ipcVars, lifeVars>>

DoScreenWrite ==
    \E data \in ScreenInputs :
        /\ writes < MaxWrites
        /\ DoWrite(data)

SpecScreen == ScreenInit /\ [][DoScreenWrite]_vars

\* The same screen under an application that paints text and switches
\* between the main and the alternate grid, one sequence per Write.
PaintInputs ==
    {<<LetterA>>, <<LetterB>>, <<SP>>, <<195, 169>>, <<195>>, <<CR>>, <<LF>>,
     Csi(<<>>, 72), Csi(Digits(2), 74),
     Csi(<<>>, 76),
     Csi(<<Question>> \o Digits(1049), 104), Csi(<<Question>> \o Digits(1049), 108),
     Csi(<<Question>> \o Digits(47), 104), Csi(<<Question>> \o Digits(1047), 108),
     Csi(<<Question>> \o Digits(1049) \o <<Semicolon>> \o Digits(47), 104)}

DoPaintWrite ==
    \E data \in PaintInputs :
        /\ writes < MaxPaintWrites
        /\ DoWrite(data)

SpecPaint == ScreenInit /\ [][DoPaintWrite]_vars

-----------------------------------------------------------------------------
(* package vt *)

\* [a-zA-Z]
IsLetter(b) == (b >= 65 /\ b <= 90) \/ (b >= 97 /\ b <= 122)

\* [0-9;?]
IsCsiParam(b) == (b >= Digit0 /\ b <= Digit9) \/ b = Semicolon \/ b = Question

RECURSIVE CsiParamEnd(_, _)
\* [0-9;?]* from index i: the first index it does not take
CsiParamEnd(s, i) ==
    IF i <= Len(s) /\ IsCsiParam(s[i]) THEN CsiParamEnd(s, i + 1) ELSE i

RECURSIVE OscTextEnd(_, _)
\* [^\x07\x1b]* from index i: the first index it does not take
OscTextEnd(s, i) ==
    IF i <= Len(s) /\ s[i] # BEL /\ s[i] # ESC THEN OscTextEnd(s, i + 1) ELSE i

\* escapePattern at the ESC at index i: the length of its match, 0 for none.
\* The alternatives are tried in order; the first two cannot match after
\* giving characters back, and the third takes one whole rune.
escapePattern(s, i) ==
    IF i + 1 > Len(s) THEN 0
    ELSE IF s[i + 1] = 91 THEN
        LET j == CsiParamEnd(s, i + 2)
        IN  IF j <= Len(s) /\ IsLetter(s[j]) THEN j - i + 1 ELSE 0
    ELSE IF s[i + 1] = 93 THEN
        LET j == OscTextEnd(s, i + 2)
        IN  IF j <= Len(s) /\ s[j] = BEL THEN j - i + 1
            ELSE IF j + 1 <= Len(s) /\ s[j] = ESC /\ s[j + 1] = 92 THEN j - i + 2
            ELSE 0
    ELSE 1 + DecodeRune(SubSeq(s, i + 1, Len(s))).size

RECURSIVE StripFrom(_, _)
\* ReplaceAllString(s, "") from index i on
StripFrom(s, i) ==
    IF i > Len(s) THEN <<>>
    ELSE IF s[i] = ESC /\ escapePattern(s, i) > 0
         THEN StripFrom(s, i + escapePattern(s, i))
         ELSE <<s[i]>> \o StripFrom(s, i + 1)

\* vt.Strip
Strip(s) == StripFrom(s, 1)

-----------------------------------------------------------------------------
(* package ipc *)

\* the JSON names of the fields of Request and Response, and two actions
NameAction == <<97, 99, 116, 105, 111, 110>>
NameText == <<116, 101, 120, 116>>
NameKey == <<107, 101, 121>>
NameLiteral == <<108, 105, 116, 101, 114, 97, 108>>
NameSendEnter == <<115, 101, 110, 100, 95, 101, 110, 116, 101, 114>>
NameLines == <<108, 105, 110, 101, 115>>
NameAlternate == <<97, 108, 116, 101, 114, 110, 97, 116, 101>>
NameJoin == <<106, 111, 105, 110>>
NameOption == <<111, 112, 116, 105, 111, 110>>
NameValue == <<118, 97, 108, 117, 101>>
NameShellCmd == <<115, 104, 101, 108, 108, 95, 99, 109, 100>>
NameOK == <<111, 107>>
NameError == <<101, 114, 114, 111, 114>>
NameOutput == <<111, 117, 116, 112, 117, 116>>
NameExists == <<101, 120, 105, 115, 116, 115>>
ActionPing == <<112, 105, 110, 103>>
ActionSendKeys == <<115, 101, 110, 100, 95, 107, 101, 121, 115>>

\* the fields of the two structs in declaration order: JSON name, record
\* field, type and the omitempty tag
RequestFields ==
    <<[name |-> NameAction, field |-> "action", typ |-> "string", omit |-> FALSE],
      [name |-> NameText, field |-> "text", typ |-> "string", omit |-> TRUE],
      [name |-> NameKey, field |-> "key", typ |-> "string", omit |-> TRUE],
      [name |-> NameLiteral, field |-> "literal", typ |-> "bool", omit |-> TRUE],
      [name |-> NameSendEnter, field |-> "send_enter", typ |-> "bool", omit |-> TRUE],
      [name |-> NameLines, field |-> "lines", typ |-> "int", omit |-> TRUE],
      [name |-> NameAlternate, field |-> "alternate", typ |-> "bool", omit |-> TRUE],
      [name |-> NameJoin, field |-> "join", typ |-> "bool", omit |-> TRUE],
      [name |-> NameOption, field |-> "option", typ |-> "string", omit |-> TRUE],
      [name |-> NameValue, field |-> "value", typ |-> "string", omit |-> TRUE],
      [name |-> NameShellCmd, field |-> "shell_cmd", typ |-> "string", omit |-> TRUE]>>

ResponseFields ==
    <<[name |-> NameOK, field |-> "ok", typ |-> "bool", omit |-> FALSE],
      [name |-> NameError, field |-> "error", typ |-> "string", omit |-> TRUE],
      [name |-> NameOutput, field |-> "output", typ |-> "string", omit |-> TRUE],
      [name |-> NameExists, field |-> "exists", typ |-> "bool", omit |-> TRUE]>>

\* var req Request / var resp Response
ZeroRequest ==
    [kind |-> "Request", action |-> <<>>, text |-> <<>>, key |-> <<>>,
     literal |-> FALSE, send_enter |-> FALSE, lines |-> 0, alternate |-> FALSE,
     join |-> FALSE, option |-> <<>>, value |-> <<>>, shell_cmd |-> <<>>]

ZeroResponse ==
    [kind |-> "Response", ok |-> FALSE, error |-> <<>>, output |-> <<>>,
     exists |-> FALSE]

FieldsOf(kind) == IF kind = "Request" THEN RequestFields ELSE ResponseFields

ZeroOf(kind) == IF kind = "Request" THEN ZeroRequest ELSE ZeroResponse

\* the zero value of a field type, which omitempty leaves out
ZeroValue(typ) == IF typ = "string" THEN <<>> ELSE IF typ = "bool" THEN FALSE ELSE 0

\* one lower-case hexadecimal digit
HexDigit(n) == IF n < 10 THEN Digit0 + n ELSE 87 + n

\* \uXXXX
UEscape(r) ==
    <<92, 117, HexDigit(r \div 4096), HexDigit((r \div 256) % 16),
      HexDigit((r \div 16) % 16), HexDigit(r % 16)>>

RECURSIVE JsonEscape(_)
\* the body of a JSON string literal as json.Marshal writes it for a Go
\* string: quote, backslash and control bytes escaped, < > & escaped, a byte
\* that is not valid UTF-8 replaced by U+FFFD
JsonEscape(str) ==
    IF str = <<>> THEN <<>>
    ELSE LET b == Head(str)
             d == DecodeRune(str)
         IN  IF b = 34 \/ b = 92 THEN <<92, b>> \o JsonEscape(Tail(str))
             ELSE IF b = LF THEN <<92, 110>> \o JsonEscape(Tail(str))
             ELSE IF b = CR THEN <<92, 114>> \o JsonEscape(Tail(str))
             ELSE IF b = HT THEN <<92, 116>> \o JsonEscape(Tail(str))
             ELSE IF b < SP \/ b \in {60, 62, 38} THEN UEscape(b) \o JsonEscape(Tail(str))
             ELSE IF b < 128 THEN <<b>> \o JsonEscape(Tail(str))
             ELSE IF d.r = RuneError /\ d.size = 1
                  THEN UEscape(RuneError) \o JsonEscape(Tail(str))
             ELSE IF d.r \in {8232, 8233}
                  THEN UEscape(d.r) \o JsonEscape(SubSeq(str, d.size + 1, Len(str)))
             ELSE SubSeq(str, 1, d.size) \o JsonEscape(SubSeq(str, d.size + 1, Len(str)))

\* the JSON text of one field value
JsonValue(typ, v) ==
    IF typ = "string" THEN <<34>> \o JsonEscape(v) \o <<34>>
    ELSE IF typ = "bool" THEN (IF v THEN <<116, 114, 117, 101>> ELSE <<102, 97, 108, 115, 101>>)
    ELSE IF v < 0 THEN <<45>> \o Digits(0 - v) ELSE Digits(v)

RECURSIVE JsonMembers(_, _, _)
\* the members of the object, from field i on; first tells that none precedes
JsonMembers(msg, i, first) ==
    LET fs == FieldsOf(msg.kind)
    IN  IF i > Len(fs) THEN <<>>
        ELSE IF fs[i].omit /\ msg[fs[i].field] = ZeroValue(fs[i].typ)
             THEN JsonMembers(msg, i + 1, first)
        ELSE (IF first THEN <<>> ELSE <<44>>)
                 \o <<34>> \o fs[i].name \o <<34, 58>>
                 \o JsonValue(fs[i].typ, msg[fs[i].field])
                 \o JsonMembers(msg, i + 1, FALSE)

\* json.Marshal of a Request or a Response
Marshal(msg) == <<123>> \o JsonMembers(msg, 1, TRUE) \o <<125>>

\* the white space JSON allows between tokens
IsJsonSpace(b) == b \in {SP, HT, LF, CR}

RECURSIVE SkipSpace(_, _)
SkipSpace(s, i) == IF i <= Len(s) /\ IsJsonSpace(s[i]) THEN SkipSpace(s, i + 1) ELSE i

\* the value of a hexadecimal digit, -1 for another byte
HexVal(b) ==
    IF b >= Digit0 /\ b <= Digit9 THEN b - Digit0
    ELSE IF b >= 97 /\ b <= 102 THEN b - 87
    ELSE IF b >= 65 /\ b <= 70 THEN b - 55
    ELSE -1

\* a parse that failed
Fail == [ok |-> FALSE, pos |-> 0, typ |-> "none", val |-> <<>>]

\* s holds the bytes of word at index i
HasAt(s, i, word) == i + Len(word) - 1 <= Len(s) /\ SubSeq(s, i, i + Len(word) - 1) = word

RECURSIVE ParseString(_, _, _)
\* a JSON string literal whose opening quote precedes index i, decoded as
\* json.Unmarshal decodes it into a Go string
ParseString(s, i, acc) ==
    IF i > Len(s) THEN Fail
    ELSE LET b == s[i]
             e == s[i + 1]
             r == HexVal(s[i + 2]) * 4096 + HexVal(s[i + 3]) * 256
                      + HexVal(s[i + 4]) * 16 + HexVal(s[i + 5])
             d == DecodeRune(SubSeq(s, i, Len(s)))
         IN  IF b = 34 THEN [ok |-> TRUE, pos |-> i + 1, typ |-> "string", val |-> acc]
             ELSE IF b = 92 THEN
                 IF i + 1 > Len(s) THEN Fail
                 ELSE IF e \in {34, 92, 47} THEN ParseString(s, i + 2, Append(acc, e))
                 ELSE IF e = 98 THEN ParseString(s, i + 2, Append(acc, BS))
                 ELSE IF e = 102 THEN ParseString(s, i + 2, Append(acc, 12))
                 ELSE IF e = 110 THEN ParseString(s, i + 2, Append(acc, LF))
                 ELSE IF e = 114 THEN ParseString(s, i + 2, Append(acc, CR))
                 ELSE IF e = 116 THEN ParseString(s, i + 2, Append(acc, HT))
                 ELSE IF e = 117 THEN
                     IF i + 5 <= Len(s) /\ \A k \in 2..5 : HexVal(s[i + k]) >= 0
                     THEN ParseString(s, i + 6, acc \o EncodeRune(r))
                     ELSE Fail
                 ELSE Fail
             ELSE IF b < SP THEN Fail
             ELSE IF b < 128 THEN ParseString(s, i + 1, Append(acc, b))
             ELSE IF d.r = RuneError /\ d.size = 1
                  THEN ParseString(s, i + 1, acc \o EncodeRune(RuneError))
             ELSE ParseString(s, i + d.size, acc \o SubSeq(s, i, i + d.size - 1))

RECURSIVE DigitsEnd(_, _)
\* the first index from i on that holds no decimal digit
DigitsEnd(s, i) ==
    IF i <= Len(s) /\ s[i] >= Digit0 /\ s[i] <= Digit9 THEN DigitsEnd(s, i + 1) ELSE i

\* a JSON number at index i decoded into a Go int: an integer in range, with
\* no leading zero, fraction or exponent
ParseInt(s, i) ==
    LET neg == s[i] = 45
        lo  == IF neg THEN i + 1 ELSE i
        hi  == DigitsEnd(s, lo)
        n   == AtoiDigits(SubSeq(s, lo, hi - 1), 0)
    IN  IF hi = lo \/ n < 0 THEN Fail
        ELSE IF hi - lo > 1 /\ s[lo] = Digit0 THEN Fail
        ELSE IF hi <= Len(s) /\ s[hi] \in {46, 69, 101} THEN Fail
        ELSE [ok |-> TRUE, pos |-> hi, typ |-> "int", val |-> IF neg THEN 0 - n ELSE n]

\* a JSON value at index i: a string, true, false, null or an integer (the
\* values the two structs hold)
ParseValue(s, i) ==
    IF i > Len(s) THEN Fail
    ELSE IF s[i] = 34 THEN ParseString(s, i + 1, <<>>)
    ELSE IF HasAt(s, i, <<116, 114, 117, 101>>)
         THEN [ok |-> TRUE, pos |-> i + 4, typ |-> "bool", val |-> TRUE]
    ELSE IF HasAt(s, i, <<102, 97, 108, 115, 101>>)
         THEN [ok |-> TRUE, pos |-> i + 5, typ |-> "bool", val |-> FALSE]
    ELSE IF HasAt(s, i, <<110, 117, 108, 108>>)
         THEN [ok |-> TRUE, pos |-> i + 4, typ |-> "null", val |-> <<>>]
    ELSE IF s[i] = 45 \/ (s[i] >= Digit0 /\ s[i] <= Digit9) THEN ParseInt(s, i)
    ELSE Fail

\* the member that starts at index i, each part parsed once: its name, the
\* colon, its value, and in pos the index of the next token
ParseMember(s, i) ==
    CHOOSE member \in
        {IF j > Len(s) \/ s[j] # 34 THEN Fail
         ELSE CHOOSE named \in
             {IF ~k.ok THEN Fail
              ELSE CHOOSE colon \in
                  {IF c > Len(s) \/ s[c] # 58 THEN Fail
                   ELSE CHOOSE valued \in
                       {IF ~v.ok THEN Fail
                        ELSE [ok |-> TRUE, pos |-> SkipSpace(s, v.pos), typ |-> "member",
                              val |-> [name |-> k.val, typ |-> v.typ, val |-> v.val]]
                        : v \in {ParseValue(s, SkipSpace(s, c + 1))}} : TRUE
                   : c \in {SkipSpace(s, k.pos)}} : TRUE
              : k \in {ParseString(s, j + 1, <<>>)}} : TRUE
         : j \in {SkipSpace(s, i)}} : TRUE

RECURSIVE ParseMembers(_, _, _)
\* the members of an object from index i on, up to its closing brace
ParseMembers(s, i, acc) ==
    CHOOSE members \in
        {IF ~m.ok \/ m.pos > Len(s) THEN Fail
         ELSE IF s[m.pos] = 44 THEN ParseMembers(s, m.pos + 1, Append(acc, m.val))
         ELSE IF s[m.pos] = 125
              THEN [ok |-> TRUE, pos |-> m.pos + 1, typ |-> "object", val |-> Append(acc, m.val)]
         ELSE Fail
         : m \in {ParseMember(s, i)}} : TRUE

\* the JSON value that opens at index i of a text: one object or null
ParseOpen(s, i) ==
    IF i > Len(s) THEN Fail
    ELSE IF HasAt(s, i, <<110, 117, 108, 108>>)
         THEN [ok |-> TRUE, pos |-> i + 4, typ |-> "null", val |-> <<>>]
    ELSE IF s[i] # 123 THEN Fail
    ELSE IF SkipSpace(s, i + 1) <= Len(s) /\ s[SkipSpace(s, i + 1)] = 125
         THEN [ok |-> TRUE, pos |-> SkipSpace(s, i + 1) + 1, typ |-> "object", val |-> <<>>]
    ELSE ParseMembers(s, i + 1, <<>>)

\* a whole JSON text holding one object or null
ParseObject(s) ==
    CHOOSE object \in
        {IF o.ok /\ SkipSpace(s, o.pos) > Len(s) THEN o ELSE Fail
         : o \in {ParseOpen(s, SkipSpace(s, 1))}} : TRUE

RECURSIVE Assign(_, _, _)
\* the members from index i on stored into the struct: a member no field is
\* named after is skipped, null leaves the field alone, a value of another
\* type is an error
Assign(msg, members, i) ==
    IF i > Len(members) THEN [ok |-> TRUE, msg |-> msg]
    ELSE LET m  == members[i]
             fs == FieldsOf(msg.kind)
             hit == {k \in 1..Len(fs) : fs[k].name = m.name}
             f  == fs[CHOOSE k \in hit : TRUE]
         IN  IF hit = {} \/ m.typ = "null" THEN Assign(msg, members, i + 1)
             ELSE IF m.typ # f.typ THEN [ok |-> FALSE, msg |-> msg]
             ELSE Assign([msg EXCEPT ![f.field] = m.val], members, i + 1)

\* json.Unmarshal(data, v) for v pointing to a zero Request or Response
Unmarshal(kind, data) ==
    CHOOSE result \in
        {IF ~o.ok THEN [ok |-> FALSE, msg |-> ZeroOf(kind)]
         ELSE Assign(ZeroOf(kind), o.val, 1)
         : o \in {ParseObject(text) : text \in {data}}} : TRUE

maxMessageSize == 10 * 1024 * 1024

\* a stream: its bytes, followed by pad space characters
Stream(bytes, pad) == [bytes |-> bytes, pad |-> pad]

\* the number of bytes a stream can still deliver
Avail(r) == Len(r.bytes) + r.pad

\* the first n bytes of a stream that holds as many, and what follows them
Take(r, n) ==
    IF n <= Len(r.bytes)
    THEN [data |-> Stream(SubSeq(r.bytes, 1, n), 0),
          rest |-> Stream(SubSeq(r.bytes, n + 1, Len(r.bytes)), r.pad)]
    ELSE [data |-> Stream(r.bytes, n - Len(r.bytes)),
          rest |-> Stream(<<>>, r.pad - (n - Len(r.bytes)))]

\* byte(length >> 24), byte(length >> 16), byte(length >> 8), byte(length)
Header(length) ==
    <<(length \div 16777216) % 256, (length \div 65536) % 256,
      (length \div 256) % 256, length % 256>>

\* header written with the low byte first
WriteMessage_LittleEndian(w, msg) ==
    LET data == Marshal(msg)
        h    == Header(Len(data))
    IN  Stream(w.bytes \o <<h[4], h[3], h[2], h[1]>> \o data, 0)

\* ipc.WriteMessage on a stream that takes every byte
WriteMessage(w, msg) ==
    LET data == Marshal(msg)
    IN  Stream(w.bytes \o Header(Len(data)) \o data, 0)

\* the length a header declares; 2^31 - 1 stands for every length from 2^31
\* on, all of them above maxMessageSize
HeaderLength(r) ==
    LET h == Take(r, 4).data
        b(i) == IF i <= Len(h.bytes) THEN h.bytes[i] ELSE SP
    IN  IF b(1) > 127 THEN 2147483647
        ELSE b(1) * 16777216 + b(2) * 65536 + b(3) * 256 + b(4)

\* ReadMessage rejecting a body of maxMessageSize bytes as well
ReadMessage_AtLeast(r, kind) ==
    LET length == HeaderLength(r)
        body   == Take(Take(r, 4).rest, length)
        u      == Unmarshal(kind, body.data.bytes \o (IF body.data.pad > 0 THEN <<SP>> ELSE <<>>))
        none   == ZeroOf(kind)
    IN  IF Avail(r) < 4
        THEN [err |-> "read header", consumed |-> Avail(r), rest |-> Stream(<<>>, 0), msg |-> none]
        ELSE IF length >= maxMessageSize
        THEN [err |-> "too large", consumed |-> 4, rest |-> Take(r, 4).rest, msg |-> none]
        ELSE IF Avail(r) - 4 < length
        THEN [err |-> "read body", consumed |-> Avail(r), rest |-> Stream(<<>>, 0), msg |-> none]
        ELSE IF ~u.ok
        THEN [err |-> "unmarshal", consumed |-> 4 + length, rest |-> body.rest, msg |-> u.msg]
        ELSE [err |-> "", consumed |-> 4 + length, rest |-> body.rest, msg |-> u.msg]

\* ipc.ReadMessage into a zero value of the given struct: the error, the
\* bytes taken from the stream, the stream left and the message decoded
ReadMessage(r, kind) ==
    LET length == HeaderLength(r)
        body   == Take(Take(r, 4).rest, length)
        u      == Unmarshal(kind, body.data.bytes \o (IF body.data.pad > 0 THEN <<SP>> ELSE <<>>))
        none   == ZeroOf(kind)
    IN  IF Avail(r) < 4
        THEN [err |-> "read header", consumed |-> Avail(r), rest |-> Stream(<<>>, 0), msg |-> none]
        ELSE IF length > maxMessageSize
        THEN [err |-> "too large", consumed |-> 4, rest |-> Take(r, 4).rest, msg |-> none]
        ELSE IF Avail(r) - 4 < length
        THEN [err |-> "read body", consumed |-> Avail(r), rest |-> Stream(<<>>, 0), msg |-> none]
        ELSE IF ~u.ok
        THEN [err |-> "unmarshal", consumed |-> 4 + length, rest |-> body.rest, msg |-> u.msg]
        ELSE [err |-> "", consumed |-> 4 + length, rest |-> body.rest, msg |-> u.msg]

-----------------------------------------------------------------------------
(* package daemon *)

RECURSIVE Join(_, _)
\* strings.Join(elems, sep)
Join(elems, sep) ==
    IF elems = <<>> THEN <<>>
    ELSE IF Len(elems) = 1 THEN elems[1]
    ELSE elems[1] \o sep \o Join(Tail(elems), sep)

\* the line count handleCapture uses when the request names none
DefaultCaptureLines == 50

\* the ASCII characters strings.TrimSpace removes
IsSpace(b) == b \in {9, 10, 11, 12, 13, SP}

RECURSIVE TrimLeft(_, _)
TrimLeft(s, cut) ==
    IF s # <<>> /\ Head(s) \in cut THEN TrimLeft(Tail(s), cut) ELSE s

RECURSIVE TrimRight(_, _)
TrimRight(s, cut) ==
    IF s # <<>> /\ s[Len(s)] \in cut THEN TrimRight(SubSeq(s, 1, Len(s) - 1), cut) ELSE s

\* strings.TrimSpace on ASCII text
TrimSpace(s) == TrimRight(TrimLeft(s, {9, 10, 11, 12, 13, SP}), {9, 10, 11, 12, 13, SP})

\* strings.HasPrefix
HasPrefix(s, pre) == Len(s) >= Len(pre) /\ SubSeq(s, 1, Len(pre)) = pre

\* strings.TrimPrefix
TrimPrefix(s, pre) == IF HasPrefix(s, pre) THEN SubSeq(s, Len(pre) + 1, Len(s)) ELSE s

\* "cat" and ">>"
CatWord == <<99, 97, 116>>
AppendWord == <<62, 62>>

\* daemon.extractPipePath
extractPipePath(cmd) ==
    LET c1 == TrimSpace(cmd)
        c2 == TrimSpace(TrimPrefix(c1, CatWord))
        c3 == TrimSpace(TrimPrefix(c2, AppendWord))
    IN  IF ~HasPrefix(c1, CatWord) THEN <<>>
        ELSE IF ~HasPrefix(c2, AppendWord) THEN <<>>
        ELSE TrimRight(TrimLeft(c3, {39, 34}), {39, 34})

\* (*os.File).Write on a file opened with O_APPEND; a closed file takes nothing
FileWrite(fs, f, data) ==
    IF f.closed THEN fs ELSE [fs EXCEPT ![f.path] = @ \o data]

\* (*os.File).Close: the number of open handles after closing f; closing a
\* closed file is an error that frees nothing
FileClose(open, f) ==
    IF f.closed THEN open ELSE open - 1

\* Daemon.handleCapture
handleCapture(b, reqLines) ==
    LET lines    == IF reqLines <= 0 THEN DefaultCaptureLines ELSE reqLines
        captured == LastWithPartial(b, lines).elems
        stripped == [i \in 1..Len(captured) |-> Strip(captured[i])]
    IN  [ok |-> TRUE, output |-> Join(stripped, <<LF>>), error |-> ""]

\* the chunks the child's output arrives in: text, line ends, a line
\* rewritten in place after a carriage return, a cursor-addressed repaint,
\* and an escape sequence cut by the end of the chunk
DaemonChunks ==
    {<<LetterA>>, <<LetterB, CR, LF>>, <<CR, LetterB>>,
     Csi(<<>>, 72) \o Csi(Digits(2), 74) \o <<LetterB>>, <<ESC, 91>>}

\* shell_cmd values of pipe_pane requests: none, an append to a file (bare
\* and quoted), and a command that is not an append
PipeCmds ==
    {<<>>, CatWord \o <<SP>> \o AppendWord \o <<SP, 102>>,
     <<SP>> \o CatWord \o AppendWord \o <<39, 102, 39>>,
     <<116, 101, 101, SP, 102>>}

\* Run, once the daemon serves: a fresh scrollback of 2000 lines, no tee,
\* the pump about to read.  The Daemon struct holds no screen; the variable
\* screen is the virtual screen of the session as screen.New makes it.
DaemonInit ==
    /\ buffer = NewBuffer(DefaultCapacity)
    /\ stream = <<>>
    /\ resized = FALSE
    /\ lastOp = [op |-> "Run", arg |-> 0, cap |-> 0]
    /\ screen = NewScreen(ScreenCols, ScreenRows)
    /\ writes = 0
    /\ pipePaneFile = NilFile
    /\ files = <<>>
    /\ openFiles = 0
    /\ pipePaneMu = "free"
    /\ handlers = <<>>
    /\ NoCalls
    /\ response = NoResponse
    /\ pumpPC = "read"
    /\ pumpData = <<>>
    /\ NoIpc
    /\ terminal = NewTerminal("conpty")
    /\ done = FALSE
    /\ listener = "open"
    /\ watchPC = "wait"
    /\ mainPC = "accept"
    /\ controlFile = TRUE
    /\ trail = <<>>
    /\ conns = {}

\* readOutput, from terminal.Read returning n > 0 bytes to the end of
\* d.buffer.Write(data)
ReadOutput(chunks) ==
    \E data \in chunks :
        /\ pumpPC = "read"
        /\ writes < MaxPumps
        /\ pumpData' = data
        /\ buffer' = BufferWrite(buffer, data)
        /\ stream' = stream \o data
        /\ writes' = writes + 1
        /\ pumpPC' = "tee"
        /\ lastOp' = [op |-> "readOutput", arg |-> Len(data), cap |-> buffer.capacity]
        /\ UNCHANGED <<resized, screen, pipePaneFile, files, paneVars, response, ipcVars, lifeVars>>

ReadOutputChunk == ReadOutput(DaemonChunks)

\* readOutput, the section under pipePaneMu
ReadOutputTee ==
    /\ pumpPC = "tee"
    /\ files' = IF pipePaneFile.isNil THEN files
                ELSE FileWrite(files, pipePaneFile, pumpData)
    /\ pumpPC' = "read"
    /\ lastOp' = [op |-> "tee", arg |-> Len(pumpData), cap |-> buffer.capacity]
    /\ UNCHANGED <<bufVars, scrVars, pipePaneFile, paneVars, response, pumpData, ipcVars,
                   lifeVars>>

\* readOutput, terminal.Read returning no bytes and an error
ReadOutputEOF ==
    /\ pumpPC = "read"
    /\ pumpPC' = "done"
    /\ lastOp' = [op |-> "EOF", arg |-> 0, cap |-> buffer.capacity]
    /\ UNCHANGED <<bufVars, scrVars, pipePaneFile, files, paneVars, response, pumpData, ipcVars, lifeVars>>

\* a capture_pane request served by handleCapture
DoCapture ==
    \E reqLines \in 0..MaxAsk :
        /\ response' = handleCapture(buffer, reqLines)
        /\ lastOp' = [op |-> "capture_pane", arg |-> reqLines, cap |-> buffer.capacity]
        /\ UNCHANGED <<bufVars, scrVars, pipePaneFile, files, paneVars, pumpPC, pumpData, ipcVars, lifeVars>>

\* Daemon.handlePipePane; os.OpenFile succeeds or fails
DoPipePane ==
    \E shellCmd \in PipeCmds, openOK \in BOOLEAN :
        LET path == extractPipePath(shellCmd)
            released == IF pipePaneFile.isNil THEN openFiles
                        ELSE FileClose(openFiles, pipePaneFile)
        IN  /\ lastOp' = [op |-> "pipe_pane", arg |-> 0, cap |-> buffer.capacity]
            /\ IF shellCmd = <<>>
               THEN /\ pipePaneFile' = NilFile
                    /\ files' = files
                    /\ openFiles' = released
                    /\ response' = [ok |-> TRUE, output |-> <<>>, error |-> ""]
               ELSE IF path = <<>>
               THEN /\ pipePaneFile' = NilFile
                    /\ files' = files
                    /\ openFiles' = released
                    /\ response' = [ok |-> FALSE, output |-> <<>>, error |-> "unsupported"]
               ELSE IF ~openOK
               THEN /\ pipePaneFile' = NilFile
                    /\ files' = files
                    /\ openFiles' = released
                    /\ response' = [ok |-> FALSE, output |-> <<>>, error |-> "open"]
               ELSE /\ pipePaneFile' = [isNil |-> FALSE, path |-> path, closed |-> FALSE]
                    /\ files' = IF path \in DOMAIN files THEN files
                                ELSE (path :> <<>>) @@ files
                    /\ openFiles' = released + 1
                    /\ response' = [ok |-> TRUE, output |-> <<>>, error |-> ""]
            /\ UNCHANGED <<bufVars, scrVars, pipePaneMu, handlers, concVars, pumpPC, pumpData,
                           ipcVars, lifeVars>>

DaemonNext ==
    \/ ReadOutputChunk
    \/ ReadOutputTee
    \/ ReadOutputEOF
    \/ DoCapture
    \/ DoPipePane

SpecDaemon == DaemonInit /\ [][DaemonNext]_vars

\* the rows Screen.Capture(k) returns for a screen fed the bytes in data
ScreenRowsOf(data, k) == Capture(ScreenWrite(NewScreen(ScreenCols, ScreenRows), data), k)

\* C1: the output of a capture_pane request with lines = L > 0 is the rows
\* the virtual screen's Capture(L) returns for all output pumped so far,
\* joined by \n.
C1_CaptureServesScreen ==
    (lastOp.op = "capture_pane" /\ lastOp.arg > 0)
        => response.output = Join(ScreenRowsOf(stream, lastOp.arg), <<LF>>)

\* C6: the pump applies every chunk it reads to the scrollback ring and to
\* the virtual screen before it reads the next one, and then to the tee
\* file if one is set at that moment.
C6_PumpFeedsAllSinks ==
    [][/\ (pumpPC = "read" /\ pumpPC' = "tee") =>
              /\ buffer' = BufferWrite(buffer, pumpData')
              /\ screen' = ScreenWrite(screen, pumpData')
       /\ (pumpPC = "tee" /\ pumpPC' = "read" /\ ~pipePaneFile.isNil) =>
              files' = [files EXCEPT ![pipePaneFile.path] = @ \o pumpData]]_vars

\* C2: the cursor of the active grid stays inside the grid,
\* 0 <= row < rows and 0 <= col < cols, after every Write.
C2_CursorInGrid ==
    /\ st(screen).row >= 0 /\ st(screen).row < screen.rows
    /\ st(screen).col >= 0 /\ st(screen).col < screen.cols

\* C3: both grids keep 0 <= scrollTop <= scrollBottom <= rows-1.
C3_ScrollRegionOrdered ==
    \A g \in {screen.main, screen.alt} :
        /\ 0 <= g.scrollTop
        /\ g.scrollTop <= g.scrollBottom
        /\ g.scrollBottom <= screen.rows - 1

BlankGrid(s) == [i \in 1..s.rows |-> makeRow(s.cols)]

\* C4: no Write changes a cell of the main grid while the alternate grid is
\* active, nor when it switches in or switches back; and every entry into
\* the alternate grid starts from an all-space alternate grid.  (Bytes of an
\* unfinished character that an earlier Write held back were written before
\* the switch in, and reach the main grid when the next Write resumes.)
C4_AltKeepsMain ==
    [][/\ (screen.inAlt \/ (screen'.inAlt /\ screen.uBuf = <<>>))
            => screen'.main.grid = screen.main.grid
       /\ (~screen.inAlt /\ screen'.inAlt) => screen'.alt.grid = BlankGrid(screen)]_vars

\* C4 witness: back on the main grid after an alternate session that drew on
\* the alternate grid, with a main grid that had been drawn on as well.
C4_Witness ==
    /\ ~screen.inAlt
    /\ screen.alt.grid # BlankGrid(screen)
    /\ screen.main.grid # BlankGrid(screen)
    /\ screen.main.grid # screen.alt.grid

Spaces(n) == [i \in 1..n |-> SP]

\* C5: Capture(k) returns min(k, rows) strings for k > 0 and rows strings for
\* k <= 0; the j-th is the j-th of the bottom-most rows of the active grid
\* without its trailing spaces, and none ends with a space.
C5_CaptureRows ==
    \A k \in -1..(ScreenRows + 2) :
        LET out == Capture(screen, k)
            n   == IF k > 0 THEN Min(k, screen.rows) ELSE screen.rows
        IN  /\ Len(out) = n
            /\ \A j \in 1..n :
                  LET whole == RunesToString(st(screen).grid[screen.rows - n + j])
                  IN  /\ (out[j] = <<>> \/ out[j][Len(out[j])] # SP)
                      /\ Len(out[j]) <= Len(whole)
                      /\ whole = out[j] \o Spaces(Len(whole) - Len(out[j]))

\* C5 witness: the bottom row holds a non-ASCII character followed by spaces
\* and differs from the top row.
C5_Witness ==
    LET g == st(screen).grid
    IN  /\ g[screen.rows][1] = 233
        /\ g[screen.rows][screen.cols] = SP
        /\ g[1] # g[screen.rows]


-----------------------------------------------------------------------------
(* What the written stream says the buffer should hold. *)

RECURSIVE NumNL(_)
\* the number of \n bytes of s
NumNL(s) ==
    IF s = <<>> THEN 0
    ELSE (IF Head(s) = LF THEN 1 ELSE 0) + NumNL(Tail(s))

RECURSIVE SplitStream(_, _, _)
\* s cut at every \n, \r dropped: the complete lines, and the unfinished rest
SplitStream(s, cur, out) ==
    IF s = <<>> THEN [lines |-> out, rest |-> cur]
    ELSE IF Head(s) = LF THEN SplitStream(Tail(s), <<>>, Append(out, cur))
    ELSE IF Head(s) = CR THEN SplitStream(Tail(s), cur, out)
    ELSE SplitStream(Tail(s), Append(cur, Head(s)), out)

AllLines(s) == SplitStream(s, <<>>, <<>>).lines

NoBreaks(line) == \A i \in 1..Len(line) : line[i] # LF /\ line[i] # CR

\* C7: after any byte stream, cut into Write calls in any way, Count() is the
\* number of \n bytes written capped at the capacity (for a buffer that was
\* never resized), count <= capacity in every state, and neither the partial
\* buffer nor any stored line holds \n or \r.
C7_CountIsNewlinesCapped ==
    /\ buffer.count <= buffer.capacity
    /\ NoBreaks(buffer.partial)
    /\ \A i \in 1..buffer.capacity : NoBreaks(buffer.lines[i])
    /\ (~resized => Count(buffer) = Min(NumNL(stream), buffer.capacity))

\* C7 witness: more \n than the capacity were written, with a \r in the
\* stream, the last Write carrying several bytes.
C7_Witness ==
    /\ ~resized
    /\ NumNL(stream) > buffer.capacity
    /\ \E i \in 1..Len(stream) : stream[i] = CR
    /\ lastOp.op = "Write" /\ lastOp.arg >= 2
    /\ buffer.partial # <<>>

\* C8: Last(n) is nil for n <= 0 and otherwise the newest min(n, count)
\* committed lines, oldest first; what an overflow drops are the oldest lines,
\* so a never-resized buffer holds the newest `capacity` lines of the stream.
C8_LastIsNewestLines ==
    /\ \A n \in -1..MaxAsk :
          Last(buffer, n) =
             IF n <= 0 THEN NilSlice
             ELSE Slice(Suffix(AllLines(stream), Min(n, buffer.count)))
    /\ (~resized =>
          Last(buffer, buffer.capacity).elems = Suffix(AllLines(stream), buffer.capacity))

\* C8 witness: the ring has overflowed and the dropped line differs from the
\* lines kept.
C8_Witness ==
    /\ ~resized
    /\ Len(AllLines(stream)) > buffer.capacity
    /\ buffer.capacity >= 2
    /\ AllLines(stream)[1] # AllLines(stream)[2]
    /\ AllLines(stream)[2] # AllLines(stream)[3]

\* C9: for n >= 1, LastWithPartial(n) is Last(n) when the partial is empty;
\* otherwise its final element is the partial and the rest is Last(n-1).
C9_LastWithPartial ==
    \A n \in 1..MaxAsk :
        LET r == LastWithPartial(buffer, n).elems
        IN  IF buffer.partial = <<>>
            THEN LastWithPartial(buffer, n) = Last(buffer, n)
            ELSE /\ Len(r) >= 1
                 /\ r[Len(r)] = buffer.partial
                 /\ SubSeq(r, 1, Len(r) - 1) = Last(buffer, n - 1).elems

\* C9 witness: a partial line behind two committed, different lines.
C9_Witness ==
    /\ buffer.partial # <<>>
    /\ buffer.count >= 2
    /\ Last(buffer, 2).elems[1] # Last(buffer, 2).elems[2]

\* C10: SetCapacity(m) with m > 0 keeps exactly the newest min(count, m)
\* lines in order, leaves the partial alone, and ends with count <= m and
\* Capacity() = m; with m <= 0 or m = capacity it changes nothing.
C10_SetCapacity ==
    [][lastOp'.op = "SetCapacity" =>
         LET m == lastOp'.arg
         IN  IF m <= 0 \/ m = buffer.capacity
             THEN buffer' = buffer
             ELSE /\ Last(buffer', buffer'.count).elems =
                        Suffix(Last(buffer, buffer.count).elems, Min(buffer.count, m))
                  /\ Count(buffer') = Min(buffer.count, m)
                  /\ buffer'.partial = buffer.partial
                  /\ Count(buffer') <= m
                  /\ Capacity(buffer') = m]_vars

\* C10 witness: a shrink below the number of lines held, with a partial line
\* pending.
C10_Witness ==
    /\ lastOp.op = "SetCapacity"
    /\ lastOp.arg >= 1 /\ lastOp.arg < lastOp.cap
    /\ buffer.capacity = lastOp.arg
    /\ buffer.count = buffer.capacity
    /\ Len(AllLines(stream)) > buffer.count
    /\ AllLines(stream)[1] # AllLines(stream)[2]
    /\ buffer.partial # <<>>

-----------------------------------------------------------------------------
(* The ipc codec on one stream. *)

\* string field values: plain, quote and backslash, control and HTML
\* characters, a two-byte character, and two that are not valid UTF-8
TextValues ==
    {<<LetterA>>, <<34, 92>>, <<LF, ESC, 60>>, <<195, 169>>, <<255>>, <<LetterA, 195>>}

\* the messages written: requests with and without optional fields, and
\* responses
Requests ==
    {[ZeroRequest EXCEPT !.action = ActionPing]}
    \cup {[ZeroRequest EXCEPT !.action = ActionSendKeys, !.text = t, !.send_enter = TRUE] :
              t \in TextValues}
    \cup {[ZeroRequest EXCEPT !.action = ActionPing, !.lines = n] : n \in {50, -1}}

Responses ==
    {[ZeroResponse EXCEPT !.ok = TRUE, !.exists = TRUE],
     [ZeroResponse EXCEPT !.error = <<LetterA>>]}
    \cup {[ZeroResponse EXCEPT !.ok = TRUE, !.output = t] : t \in {<<LetterB, LF>>, <<255>>}}

\* {}
EmptyObject == <<123, 125>>

\* streams not written by WriteMessage: headers declaring 16 MiB, one byte
\* more than 10 MiB and exactly 10 MiB (with a body of that length, and cut
\* short), a body shorter than declared, half a header, and a body that is
\* no JSON
RawStreams ==
    {Stream(<<1, 0, 0, 0>> \o EmptyObject, 0),
     Stream(Header(maxMessageSize + 1) \o EmptyObject, maxMessageSize + 3),
     Stream(Header(maxMessageSize) \o EmptyObject, maxMessageSize - 2),
     Stream(Header(maxMessageSize) \o EmptyObject, 5),
     Stream(<<0, 0, 0, 16>> \o EmptyObject, 0),
     Stream(<<0, 0>>, 0),
     Stream(Header(1) \o <<LetterA>> \o Header(2) \o EmptyObject, 0)}

IpcInit ==
    /\ NoSession
    /\ buffer = NewBuffer(1)
    /\ stream = <<>>
    /\ resized = FALSE
    /\ screen = NewScreen(ScreenCols, ScreenRows)
    /\ writes = 0
    /\ pipePaneFile = NilFile
    /\ files = <<>>
    /\ openFiles = 0
    /\ pipePaneMu = "free"
    /\ handlers = <<>>
    /\ NoCalls
    /\ response = NoResponse
    /\ pumpPC = "done"
    /\ pumpData = <<>>
    /\ lastOp = [op |-> "New", arg |-> 0, cap |-> 0]
    /\ \/ wire = Stream(<<>>, 0) /\ sent = <<>>
       \/ wire \in RawStreams /\ sent = <<[kind |-> "raw"]>>
    /\ received = <<>>
    /\ readErr = [err |-> "none", consumed |-> 0]

\* the struct the reader of the stream decodes into
ReaderKind ==
    LET real == {i \in 1..Len(sent) : sent[i].kind # "raw"}
    IN  IF real = {} THEN "Request" ELSE sent[CHOOSE i \in real : TRUE].kind

\* one WriteMessage call, the stream carrying messages of one struct
DoWriteMessage ==
    \E msg \in Requests \cup Responses :
        /\ Len(sent) < MaxMsgs
        /\ wire.pad = 0
        /\ (\A i \in 1..Len(sent) : sent[i].kind \in {"raw", msg.kind})
        /\ wire' = WriteMessage(wire, msg)
        /\ sent' = Append(sent, msg)
        /\ lastOp' = [op |-> "WriteMessage", arg |-> 0, cap |-> 0]
        /\ UNCHANGED <<received, readErr, bufVars, scrVars, dmnVars, lifeVars>>

\* one ReadMessage call; a reader whose call failed gives the stream up
DoReadMessage ==
    \E got \in {ReadMessage(wire, ReaderKind)} :
        /\ readErr.err \in {"none", ""}
        /\ wire' = got.rest
        /\ readErr' = [err |-> got.err, consumed |-> got.consumed]
        /\ received' = IF got.err = "" THEN Append(received, got.msg) ELSE received
        /\ lastOp' = [op |-> "ReadMessage", arg |-> 0, cap |-> 0]
        /\ UNCHANGED <<sent, bufVars, scrVars, dmnVars, lifeVars>>

IpcNext == DoWriteMessage \/ DoReadMessage

SpecIpc == IpcInit /\ [][IpcNext]_vars

RECURSIVE ValidUTF8(_)
\* utf8.ValidString
ValidUTF8(str) ==
    IF str = <<>> THEN TRUE
    ELSE LET d == DecodeRune(str)
         IN  IF d.r = RuneError /\ d.size = 1 THEN FALSE
             ELSE ValidUTF8(SubSeq(str, d.size + 1, Len(str)))

\* every string field of the message is valid UTF-8
ValidMessage(msg) ==
    \A i \in 1..Len(FieldsOf(msg.kind)) :
        FieldsOf(msg.kind)[i].typ = "string" => ValidUTF8(msg[FieldsOf(msg.kind)[i].field])

RECURSIVE Frames(_)
\* the bytes of the messages framed one after another
Frames(msgs) ==
    IF msgs = <<>> THEN <<>>
    ELSE Header(Len(Marshal(Head(msgs)))) \o Marshal(Head(msgs)) \o Frames(Tail(msgs))

\* the stream holds nothing but messages written by WriteMessage, and no
\* read has failed for want of bytes
OnlyMessages ==
    /\ \A i \in 1..Len(sent) : sent[i].kind # "raw"
    /\ readErr.err \in {"none", "", "read header"}

\* the messages read are the first messages written, field for field, and
\* the stream holds exactly the frames of the others
RoundTrip ==
    /\ Len(received) <= Len(sent)
    /\ received = SubSeq(sent, 1, Len(received))
    /\ wire = Stream(Frames(SubSeq(sent, Len(received) + 1, Len(sent))), 0)
    /\ readErr.err = "" =>
           readErr.consumed = 4 + Len(Marshal(received[Len(received)]))

\* C11 as stated: for any messages written back to back, the reads return
\* them field for field in order, each taking one header and one body.
C11_RoundTripAny == OnlyMessages => RoundTrip

\* C11: for messages whose string fields are valid UTF-8, written back to
\* back with WriteMessage, the reads return the same messages field for
\* field in the same order, each read taking exactly one 4-byte header and
\* the body it declares.
C11_RoundTripValid ==
    (OnlyMessages /\ \A i \in 1..Len(sent) : ValidMessage(sent[i])) => RoundTrip

\* C11 witness: two different messages read back, one with a text that needs
\* escapes and one with a two-byte character, and a third still on the stream.
C11_Witness ==
    /\ OnlyMessages
    /\ Len(received) = 2 /\ Len(sent) = 3
    /\ received[1].kind = "Request"
    /\ received[1].text = <<LF, ESC, 60>>
    /\ received[2].text = <<195, 169>>
    /\ readErr.err = ""

\* C12: a ReadMessage call on a stream whose header declares more than
\* 10 MiB returns the size error, takes the 4 header bytes only and leaves
\* every later byte on the stream; a header declaring exactly 10 MiB is not
\* rejected for size.
C12_OversizeRejected ==
    [][(lastOp'.op = "ReadMessage" /\ Avail(wire) >= 4) =>
           /\ HeaderLength(wire) > maxMessageSize =>
                  /\ readErr' = [err |-> "too large", consumed |-> 4]
                  /\ wire' = Take(wire, 4).rest
                  /\ received' = received
           /\ HeaderLength(wire) = maxMessageSize => readErr'.err # "too large"]_vars

\* C12 witness: a header declaring one byte more than 10 MiB was rejected
\* with its body still on the stream.
C12_Witness ==
    /\ readErr = [err |-> "too large", consumed |-> 4]
    /\ sent = <<[kind |-> "raw"]>>
    /\ wire = Stream(EmptyObject, maxMessageSize + 3)

\* C12 witness of the boundary: a body of exactly 10 MiB was read and decoded.
C12_WitnessBoundary ==
    /\ readErr = [err |-> "", consumed |-> 4 + maxMessageSize]
    /\ received = <<ZeroRequest>>

-----------------------------------------------------------------------------
(* package pty *)

\* Close has run: the pipe handles are closed
Closed(t) == t.teardowns > 0

\* the size of readOutput's buffer
ReadBuf == 4096

\* Read that reports the end of the stream whenever the pipe is empty
Read_EndWhenEmpty(t, n) ==
    IF t.pipeOut = <<>> \/ Closed(t)
    THEN [ret |-> TRUE, data |-> <<>>, err |-> "broken pipe", t |-> t]
    ELSE [ret |-> TRUE, data |-> SubSeq(t.pipeOut, 1, Min(n, Len(t.pipeOut))), err |-> "",
          t |-> [t EXCEPT !.pipeOut = SubSeq(@, Min(n, Len(@)) + 1, Len(@))]]

\* Terminal.Read(buf) for a buffer of n bytes.  ret: the call returns (a
\* ConPTY keeps polling while the child runs and the pipe is empty); data:
\* buf[:n]; err: "" for nil
Read(t, n) ==
    LET take == SubSeq(t.pipeOut, 1, Min(n, Len(t.pipeOut)))
        left == SubSeq(t.pipeOut, Len(take) + 1, Len(t.pipeOut))
        got  == [ret |-> TRUE, data |-> take, err |-> "", t |-> [t EXCEPT !.pipeOut = left]]
        fail(e) == [ret |-> TRUE, data |-> <<>>, err |-> e, t |-> t]
    IN  IF t.impl = "conpty"
        THEN IF t.exited
             THEN IF Closed(t) \/ t.pipeOut = <<>> THEN fail("broken pipe") ELSE got
             ELSE IF Closed(t) THEN fail("PeekNamedPipe failed")
             ELSE IF t.pipeOut # <<>> THEN got
             ELSE [ret |-> FALSE, data |-> <<>>, err |-> "", t |-> t]
        ELSE IF Closed(t) THEN fail("file already closed")
             ELSE IF t.pipeOut # <<>> THEN got
             ELSE IF ~t.running THEN fail("EOF")
             ELSE [ret |-> FALSE, data |-> <<>>, err |-> "", t |-> t]

\* Terminal.Write(data): the bytes reach the child's input unless the handle
\* is closed
Write(t, data) ==
    IF t.impl = "conpty" /\ data = <<>> THEN [t |-> t, err |-> ""]
    ELSE IF Closed(t) THEN [t |-> t, err |-> "WriteFile"]
    ELSE [t |-> [t EXCEPT !.ptyIn = @ \o data], err |-> ""]

\* Close that leaves the child running
Close_KeepChild(t) ==
    [t |-> [t EXCEPT !.closeCalls = @ + 1, !.teardowns = 1], err |-> ""]

\* Terminal.Close.  ConPTY: closeOnce.Do runs the teardown on the first call
\* only, and every call returns nil.  ExecTerminal: every call closes the
\* pipes and kills the process, and returns the error of Process.Kill, which
\* fails once the process has been waited for
Close(t) ==
    IF t.impl = "conpty"
    THEN [t |-> [t EXCEPT !.closeCalls = @ + 1,
                          !.teardowns = IF @ = 0 THEN 1 ELSE @,
                          !.running = FALSE,
                          !.code = IF t.running THEN 1 ELSE @],
          err |-> ""]
    ELSE [t |-> [t EXCEPT !.closeCalls = @ + 1,
                          !.teardowns = @ + 1,
                          !.running = FALSE,
                          !.code = IF t.running THEN -1 ELSE @,
                          !.closeErrs = IF t.exited THEN @ + 1 ELSE @],
          err |-> IF t.exited THEN "os: process already finished" ELSE ""]

-----------------------------------------------------------------------------
(* The daemon's handlers of keys and of the session's life. *)

\* keyMap
keyMap ==
    ("Enter" :> <<CR>>) @@ ("Escape" :> <<ESC>>) @@ ("BSpace" :> <<DEL>>)
    @@ ("Tab" :> <<HT>>) @@ ("Space" :> <<SP>>)
    @@ ("C-c" :> <<3>>) @@ ("C-d" :> <<4>>) @@ ("C-z" :> <<26>>)
    @@ ("Up" :> <<ESC, 91, 65>>) @@ ("Down" :> <<ESC, 91, 66>>)
    @@ ("Right" :> <<ESC, 91, 67>>) @@ ("Left" :> <<ESC, 91, 68>>)
    @@ ("Home" :> <<ESC, 91, 72>>) @@ ("End" :> <<ESC, 91, 70>>)
    @@ ("DC" :> <<ESC, 91, 51, 126>>) @@ ("PageUp" :> <<ESC, 91, 53, 126>>)
    @@ ("PageDown" :> <<ESC, 91, 54, 126>>)

\* ipc.Response{OK: true}
RespOK == [ok |-> TRUE, output |-> <<>>, error |-> ""]

\* ipc.Response{OK: false, Error: e}
RespError(e) == [ok |-> FALSE, output |-> <<>>, error |-> e]

\* handleSendKeys that sends the carriage return before the text
handleSendKeys_EnterFirst(t, req) ==
    LET w1 == IF req.send_enter THEN Write(t, <<CR>>) ELSE [t |-> t, err |-> ""]
        w2 == IF req.text # <<>> THEN Write(w1.t, req.text) ELSE [t |-> w1.t, err |-> ""]
    IN  IF w1.err # "" THEN [t |-> w1.t, resp |-> RespError(w1.err)]
        ELSE IF w2.err # "" THEN [t |-> w2.t, resp |-> RespError(w2.err)]
        ELSE [t |-> w2.t, resp |-> RespOK]

\* Daemon.handleSendKeys: the terminal after it and the response
handleSendKeys(t, req) ==
    LET w1 == IF req.text # <<>> THEN Write(t, req.text) ELSE [t |-> t, err |-> ""]
        w2 == IF req.send_enter THEN Write(w1.t, <<CR>>) ELSE [t |-> w1.t, err |-> ""]
    IN  IF w1.err # "" THEN [t |-> w1.t, resp |-> RespError(w1.err)]
        ELSE IF w2.err # "" THEN [t |-> w2.t, resp |-> RespError(w2.err)]
        ELSE [t |-> w2.t, resp |-> RespOK]

\* handleSendKey that sends every named key as Enter
handleSendKey_AllEnter(t, req) ==
    IF req.key \notin DOMAIN keyMap THEN [t |-> t, resp |-> RespError("unknown key")]
    ELSE [t |-> Write(t, <<CR>>).t,
          resp |-> IF Write(t, <<CR>>).err # "" THEN RespError("WriteFile") ELSE RespOK]

\* Daemon.handleSendKey
handleSendKey(t, req) ==
    IF req.key \notin DOMAIN keyMap THEN [t |-> t, resp |-> RespError("unknown key")]
    ELSE LET w == Write(t, keyMap[req.key])
         IN  IF w.err # "" THEN [t |-> w.t, resp |-> RespError(w.err)]
             ELSE [t |-> w.t, resp |-> RespOK]

\* handleHasSession that answers from the listener instead of d.done
handleHasSession_Listener == [ok |-> TRUE, output |-> <<>>, error |-> "", exists |-> listener = "open"]

\* Daemon.handleHasSession
handleHasSession == [ok |-> TRUE, output |-> <<>>, error |-> "", exists |-> ~done]

\* Daemon.handleKillSession
handleKillSession(t) ==
    LET c == Close(t)
    IN  [t |-> c.t, resp |-> IF c.err # "" THEN RespError(c.err) ELSE RespOK]

-----------------------------------------------------------------------------
(* The life of a session: Run from the accept loop to the end of cleanup,
   with the child, the two watchers, the pump and the handlers of accepted
   connections as concurrent processes. *)

\* the bytes the child writes while the session lives, at most
MaxOut == 1

\* the accepted connections waiting for their handler, at most
MaxConns == 1

\* the kill_session requests accepted, at most
MaxKills == 1

\* the chunks the child writes
ChildChunks == {<<LetterA>>}

\* the requests of the session's life
LifeRequests == {[action |-> "has_session"], [action |-> "kill_session"]}

\* the tee file of a session whose pipe_pane request was served earlier
TeeFile == [isNil |-> FALSE, path |-> <<102>>, closed |-> FALSE]

\* Run, once the daemon serves, with or without a tee
LifeInit ==
    /\ buffer = NewBuffer(DefaultCapacity)
    /\ stream = <<>>
    /\ resized = FALSE
    /\ lastOp = [op |-> "Run", arg |-> 0, cap |-> 0]
    /\ screen = NewScreen(ScreenCols, ScreenRows)
    /\ writes = 0
    /\ \/ pipePaneFile = NilFile /\ files = <<>> /\ openFiles = 0
       \/ pipePaneFile = TeeFile /\ files = (TeeFile.path :> <<>>) /\ openFiles = 1
    /\ pipePaneMu = "free"
    /\ handlers = <<>>
    /\ NoCalls
    /\ response = NoResponse
    /\ pumpPC = "read"
    /\ pumpData = <<>>
    /\ NoIpc
    /\ terminal = NewTerminal("conpty")
    /\ done = FALSE
    /\ listener = "open"
    /\ watchPC = "wait"
    /\ mainPC = "accept"
    /\ controlFile = TRUE
    /\ trail = <<>>
    /\ conns = {}

\* the step leaves everything but the named parts of the session's life alone
LifeStep(op) ==
    /\ lastOp' = [op |-> op, arg |-> 0, cap |-> 0]
    /\ UNCHANGED <<bufVars, scrVars, ipcVars>>

\* the child writes to its console
ChildOutput ==
    \E data \in ChildChunks :
        /\ terminal.running
        /\ Len(stream) + Len(terminal.pipeOut) + Len(data) <= MaxOut
        /\ terminal' = [terminal EXCEPT !.pipeOut = @ \o data]
        /\ LifeStep("child output")
        /\ UNCHANGED <<dmnVars, done, listener, watchPC, mainPC, controlFile, trail, conns>>

\* the child exits by itself
ChildExit ==
    /\ terminal.running
    /\ terminal' = [terminal EXCEPT !.running = FALSE, !.code = 0]
    /\ LifeStep("child exit")
    /\ UNCHANGED <<dmnVars, done, listener, watchPC, mainPC, controlFile, trail, conns>>

\* ConPTY.watchProcess: the wait on the process returns, close(c.exited)
TerminalWatch ==
    /\ ~terminal.running
    /\ ~terminal.exited
    /\ terminal' = [terminal EXCEPT !.exited = TRUE]
    /\ LifeStep("exited")
    /\ UNCHANGED <<dmnVars, done, listener, watchPC, mainPC, controlFile, trail, conns>>

\* Daemon.watchProcess: terminal.Wait returns, close(d.done)
WatchWait ==
    /\ watchPC = "wait"
    /\ terminal.exited
    /\ done' = TRUE
    /\ watchPC' = "grace"
    /\ trail' = Append(trail, "exit observed")
    /\ LifeStep("done")
    /\ UNCHANGED <<dmnVars, terminal, listener, mainPC, controlFile, conns>>

\* watchProcess returning after the grace period with the listener left open
WatchClose_LeaveOpen ==
    /\ watchPC = "grace"
    /\ watchPC' = "done"
    /\ LifeStep("listener.Close")
    /\ UNCHANGED <<dmnVars, terminal, done, listener, mainPC, controlFile, trail, conns>>

\* Daemon.watchProcess: the grace period is over, d.listener.Close()
WatchClose ==
    /\ watchPC = "grace"
    /\ listener' = "closed"
    /\ watchPC' = "done"
    /\ trail' = Append(trail, "listener closed")
    /\ LifeStep("listener.Close")
    /\ UNCHANGED <<dmnVars, terminal, done, mainPC, controlFile, conns>>

\* Accept failing at any time
AcceptFails_Anytime == TRUE

\* d.listener.Accept returns an error: the listener is closed
AcceptFails == listener = "closed"

\* acceptConnections: a connection is accepted and its handler started
Accept ==
    \E req \in LifeRequests :
        /\ mainPC = "accept"
        /\ listener = "open"
        /\ req \notin conns
        /\ Cardinality(conns) < MaxConns
        /\ req.action = "kill_session" => terminal.closeCalls < MaxKills
        /\ conns' = conns \cup {req}
        /\ LifeStep("accept")
        /\ UNCHANGED <<dmnVars, terminal, done, listener, watchPC, mainPC, controlFile, trail>>

\* acceptConnections returns
AcceptReturn ==
    /\ mainPC = "accept"
    /\ AcceptFails
    /\ mainPC' = "tee"
    /\ trail' = Append(trail, "accept returned")
    /\ LifeStep("accept returned")
    /\ UNCHANGED <<dmnVars, terminal, done, listener, watchPC, controlFile, conns>>

\* cleanup, the section under pipePaneMu
CleanupTee ==
    /\ mainPC = "tee"
    /\ pipePaneFile' = IF pipePaneFile.isNil THEN pipePaneFile
                       ELSE [pipePaneFile EXCEPT !.closed = TRUE]
    /\ openFiles' = IF pipePaneFile.isNil THEN openFiles
                    ELSE FileClose(openFiles, pipePaneFile)
    /\ mainPC' = "pty"
    /\ trail' = Append(trail, "tee closed")
    /\ LifeStep("cleanup tee")
    /\ UNCHANGED <<files, pipePaneMu, handlers, concVars, response, pumpPC, pumpData, terminal,
                   done, listener, watchPC, controlFile, conns>>

\* cleanup: d.terminal.Close()
CleanupTerminal ==
    /\ mainPC = "pty"
    /\ terminal' = Close(terminal).t
    /\ mainPC' = "remove"
    /\ trail' = Append(trail, "pty closed")
    /\ LifeStep("cleanup pty")
    /\ UNCHANGED <<dmnVars, done, listener, watchPC, controlFile, conns>>

\* cleanup: os.Remove(d.socketPath), and Run returns
CleanupRemove ==
    /\ mainPC = "remove"
    /\ controlFile' = FALSE
    /\ mainPC' = "done"
    /\ trail' = Append(trail, "file removed")
    /\ LifeStep("cleanup remove")
    /\ UNCHANGED <<dmnVars, terminal, done, listener, watchPC, conns>>

\* handleConnection of a has_session request
ServeHasSession ==
    \E req \in conns :
        /\ req.action = "has_session"
        /\ conns' = conns \ {req}
        /\ response' = handleHasSession
        /\ LifeStep("has_session")
        /\ UNCHANGED <<pipePaneFile, files, paneVars, pumpPC, pumpData, terminal, done, listener,
                       watchPC, mainPC, controlFile, trail>>

\* handleConnection of a kill_session request
ServeKillSession ==
    \E req \in conns :
        /\ req.action = "kill_session"
        /\ conns' = conns \ {req}
        /\ terminal' = handleKillSession(terminal).t
        /\ response' = handleKillSession(terminal).resp
        /\ LifeStep("kill_session")
        /\ UNCHANGED <<pipePaneFile, files, paneVars, pumpPC, pumpData, done, listener,
                       watchPC, mainPC, controlFile, trail>>

\* readOutput: terminal.Read returns bytes, d.buffer.Write(data)
PumpRead ==
    \E r \in {Read(terminal, ReadBuf)} :
        /\ pumpPC = "read"
        /\ r.ret
        /\ r.err = ""
        /\ terminal' = r.t
        /\ pumpData' = r.data
        /\ buffer' = BufferWrite(buffer, r.data)
        /\ stream' = stream \o r.data
        /\ pumpPC' = "tee"
        /\ lastOp' = [op |-> "readOutput", arg |-> Len(r.data), cap |-> buffer.capacity]
        /\ UNCHANGED <<resized, scrVars, ipcVars, pipePaneFile, files, paneVars, response,
                       done, listener, watchPC, mainPC, controlFile, trail, conns>>

\* readOutput: terminal.Read returns an error, the pump returns
PumpEnd ==
    \E r \in {Read(terminal, ReadBuf)} :
        /\ pumpPC = "read"
        /\ r.ret
        /\ r.err # ""
        /\ pumpPC' = "done"
        /\ lastOp' = [op |-> "read error", arg |-> r.err, cap |-> 0]
        /\ UNCHANGED <<bufVars, scrVars, ipcVars, pipePaneFile, files, paneVars, response, pumpData,
                       lifeVars>>

LifeNext ==
    \/ ChildOutput
    \/ ChildExit
    \/ TerminalWatch
    \/ WatchWait
    \/ WatchClose
    \/ Accept
    \/ AcceptReturn
    \/ CleanupTee
    \/ CleanupTerminal
    \/ CleanupRemove
    \/ ServeHasSession
    \/ ServeKillSession
    \/ PumpRead
    \/ ReadOutputTee
    \/ PumpEnd

SpecLife == LifeInit /\ [][LifeNext]_vars

\* the steps of Daemon.watchProcess, of Run after the servers are started,
\* and of readOutput: one goroutine each
WatchSteps == WatchWait \/ WatchClose

MainSteps == AcceptReturn \/ CleanupTee \/ CleanupTerminal \/ CleanupRemove

PumpSteps == PumpRead \/ ReadOutputTee \/ PumpEnd

\* The Go scheduler keeps running every goroutine that can take a step, the
\* wait on the process handle returns once the process has ended, and the
\* grace period ends.  Nothing makes the child write or exit, a client
\* connect, or a handler finish.
LifeFairness ==
    /\ WF_vars(TerminalWatch)
    /\ WF_vars(WatchSteps)
    /\ WF_vars(MainSteps)
    /\ WF_vars(PumpSteps)

FairLife == SpecLife /\ LifeFairness

\* C13: every has_session response has ok = true and exists = true exactly
\* when d.done is not closed at the time the request is handled; d.done,
\* once closed, stays closed, so after a response with exists = false no
\* later response has exists = true.
C13_HasSessionTracksExit ==
    [][/\ lastOp'.op = "has_session" =>
              (response'.ok /\ response'.exists = ~done /\ done' = done)
       /\ done => done']_vars

\* C13 witness: a has_session request served in the grace period, after the
\* exit signal and before the listener closed, answered exists = false.
C13_Witness ==
    /\ lastOp.op = "has_session"
    /\ response.ok /\ ~response.exists
    /\ done /\ listener = "open"

\* C14: under fair scheduling the daemon of a child that has exited closes
\* the listener, the accept loop returns and cleanup removes the control
\* file; a has_session request served after the exit signal and before the
\* listener is closed is answered exists = false.
C14_ExitLeadsToCleanup ==
    /\ (~terminal.running) ~> (listener = "closed" /\ mainPC = "done" /\ ~controlFile)
    /\ [][(lastOp'.op = "has_session" /\ done /\ listener = "open")
              => ~response'.exists]_vars

\* C14 witness: the child exited by itself and the daemon went all the way:
\* listener closed, Run returned, control file gone.
C14_Witness ==
    /\ terminal.code = 0
    /\ terminal.closeCalls = 1
    /\ listener = "closed" /\ mainPC = "done" /\ ~controlFile

\* the shutdown steps in the order the daemon takes them
ShutdownOrder ==
    <<"exit observed", "listener closed", "accept returned",
      "tee closed", "pty closed", "file removed">>

C16_KillLeadsToShutdown ==
    /\ [][lastOp'.op = "kill_session" =>
              (response'.ok /\ Closed(terminal') /\ ~terminal'.running)]_vars
    /\ Closed(terminal) ~>
           (terminal.exited /\ done /\ trail = ShutdownOrder /\ ~controlFile)

\* C16 witness: a kill_session request ended a running child (exit code 1)
\* and was answered ok = true before the exit signal fired.
C16_Witness ==
    /\ lastOp.op = "kill_session"
    /\ response.ok
    /\ terminal.code = 1
    /\ ~terminal.exited /\ ~done

\* C16 witness of the end: the session of a killed child shut down.
C16_WitnessShutdown ==
    /\ terminal.code = 1
    /\ trail = ShutdownOrder
    /\ ~controlFile

-----------------------------------------------------------------------------
(* A terminal of either implementation with its child, its exit watcher, a
   reader and callers of Close. *)

TerminalInit ==
    /\ buffer = NewBuffer(1)
    /\ stream = <<>>
    /\ resized = FALSE
    /\ lastOp = [op |-> "New", arg |-> 0, cap |-> 0]
    /\ screen = NewScreen(ScreenCols, ScreenRows)
    /\ writes = 0
    /\ pipePaneFile = NilFile
    /\ files = <<>>
    /\ openFiles = 0
    /\ pipePaneMu = "free"
    /\ handlers = <<>>
    /\ NoCalls
    /\ response = NoResponse
    /\ pumpPC = "done"
    /\ pumpData = <<>>
    /\ NoIpc
    /\ terminal \in {NewTerminal("conpty"), NewTerminal("exec")}
    /\ done = FALSE
    /\ listener = "closed"
    /\ watchPC = "none"
    /\ mainPC = "none"
    /\ controlFile = FALSE
    /\ trail = <<>>
    /\ conns = {}

\* one Close call, by any caller
DoClose ==
    \E c \in {Close(terminal)} :
        /\ terminal.closeCalls <= MaxKills
        /\ terminal' = c.t
        /\ lastOp' = [op |-> "Close", arg |-> c.err, cap |-> 0]
        /\ UNCHANGED <<bufVars, scrVars, ipcVars, dmnVars, done, listener, watchPC, mainPC,
                       controlFile, trail, conns>>

\* one Read call that returns
DoRead ==
    \E r \in {Read(terminal, ReadBuf)} :
        /\ r.ret
        /\ terminal' = r.t
        /\ stream' = stream \o r.data
        /\ lastOp' = [op |-> "Read", arg |-> r.err, cap |-> 0]
        /\ UNCHANGED <<buffer, resized, scrVars, ipcVars, dmnVars, done, listener, watchPC,
                       mainPC, controlFile, trail, conns>>

TerminalNext ==
    \/ ChildOutput
    \/ ChildExit
    \/ TerminalWatch
    \/ DoClose
    \/ DoRead

SpecTerminal == TerminalInit /\ [][TerminalNext]_vars

\* C17: once Close has been called, whatever the number of calls and whether
\* or not the child had exited, the teardown has been performed exactly once
\* and no call has returned an error.
C17_CloseIdempotent ==
    terminal.closeCalls > 0 => (terminal.teardowns = 1 /\ terminal.closeErrs = 0)

-----------------------------------------------------------------------------
(* The daemon serving send_keys, send_key and kill_session requests one after
   another, each answered before the next is sent.  received and sent hold
   the requests handleConnection has read and the responses it has written,
   in order. *)

\* the requests served, at most
MaxSends == 2

\* echo hi
EchoHi == <<101, 99, 104, 111, SP, 104, 105>>

\* send_keys requests: no text, a text, with and without send_enter
SendKeysRequests ==
    {[action |-> "send_keys", text |-> txt, key |-> "", send_enter |-> e] :
         txt \in {<<>>, EchoHi}, e \in BOOLEAN}

\* send_key requests: every name of keyMap, a name in another case, the
\* long name of DC, and no name
SendKeyRequests ==
    {[action |-> "send_key", text |-> <<>>, key |-> k, send_enter |-> FALSE] :
         k \in DOMAIN keyMap \cup {"enter", "Delete", ""}}

\* handleConnection: the request is read, dispatched to its handler and the
\* response written
DoSendKeys ==
    \E req \in SendKeysRequests :
        \E r \in {handleSendKeys(terminal, req)} :
            /\ Len(received) < MaxSends
            /\ terminal' = r.t
            /\ response' = r.resp
            /\ received' = Append(received, req)
            /\ sent' = Append(sent, r.resp)
            /\ lastOp' = [op |-> "send_keys", arg |-> req, cap |-> 0]
            /\ UNCHANGED <<bufVars, scrVars, wire, readErr, pipePaneFile, files, paneVars, pumpPC,
                           pumpData, done, listener, watchPC, mainPC, controlFile, trail,
                           conns>>

DoSendKey ==
    \E req \in SendKeyRequests :
        \E r \in {handleSendKey(terminal, req)} :
            /\ Len(received) < MaxSends
            /\ terminal' = r.t
            /\ response' = r.resp
            /\ received' = Append(received, req)
            /\ sent' = Append(sent, r.resp)
            /\ lastOp' = [op |-> "send_key", arg |-> req, cap |-> 0]
            /\ UNCHANGED <<bufVars, scrVars, wire, readErr, pipePaneFile, files, paneVars, pumpPC,
                           pumpData, done, listener, watchPC, mainPC, controlFile, trail,
                           conns>>

DoKillSession ==
    \E r \in {handleKillSession(terminal)} :
        /\ Len(received) < MaxSends
        /\ terminal.closeCalls < MaxKills
        /\ terminal' = r.t
        /\ response' = r.resp
        /\ received' = Append(received, [action |-> "kill_session"])
        /\ sent' = Append(sent, r.resp)
        /\ lastOp' = [op |-> "kill_session", arg |-> 0, cap |-> 0]
        /\ UNCHANGED <<bufVars, scrVars, wire, readErr, pipePaneFile, files, paneVars, pumpPC,
                       pumpData, done, listener, watchPC, mainPC, controlFile, trail,
                       conns>>

KeysNext == DoSendKeys \/ DoSendKey \/ DoKillSession

SpecKeys == DaemonInit /\ [][KeysNext]_vars

\* the named-key table of the design
KeyTable ==
    ("Enter" :> <<13>>) @@ ("Escape" :> <<27>>) @@ ("BSpace" :> <<127>>)
    @@ ("Tab" :> <<9>>) @@ ("Space" :> <<32>>)
    @@ ("C-c" :> <<3>>) @@ ("C-d" :> <<4>>) @@ ("C-z" :> <<26>>)
    @@ ("Up" :> <<27, 91, 65>>) @@ ("Down" :> <<27, 91, 66>>)
    @@ ("Right" :> <<27, 91, 67>>) @@ ("Left" :> <<27, 91, 68>>)
    @@ ("Home" :> <<27, 91, 72>>) @@ ("End" :> <<27, 91, 70>>)
    @@ ("DC" :> <<27, 91, 51, 126>>) @@ ("PageUp" :> <<27, 91, 53, 126>>)
    @@ ("PageDown" :> <<27, 91, 54, 126>>)

\* C19 as stated: a send_key request with a name of the table appends
\* exactly the table's bytes to the PTY input and is answered ok = true; any
\* other name is answered ok = false with an error and writes nothing.
C19_KeyAlwaysWritten ==
    [][lastOp'.op = "send_key" =>
           IF lastOp'.arg.key \in DOMAIN KeyTable
           THEN /\ terminal'.ptyIn = terminal.ptyIn \o KeyTable[lastOp'.arg.key]
                /\ response'.ok
           ELSE /\ terminal'.ptyIn = terminal.ptyIn
                /\ ~response'.ok /\ response'.error # ""]_vars

\* C19: a send_key request with one of the 17 names of the table, served
\* while the PTY is open, appends exactly the table's bytes to the PTY input
\* and is answered ok = true; served after the PTY was closed it writes
\* nothing and is answered ok = false with the write error; a request with
\* any other name is answered ok = false with an error and writes nothing.
C19_KeyWrittenWhileOpen ==
    [][lastOp'.op = "send_key" =>
           IF lastOp'.arg.key \in DOMAIN KeyTable /\ ~Closed(terminal)
           THEN /\ terminal'.ptyIn = terminal.ptyIn \o KeyTable[lastOp'.arg.key]
                /\ response'.ok
           ELSE /\ terminal'.ptyIn = terminal.ptyIn
                /\ ~response'.ok /\ response'.error # ""]_vars

\* C19 witness: the key PageDown was served and its four bytes are the PTY
\* input.
C19_Witness ==
    /\ lastOp.op = "send_key" /\ lastOp.arg.key = "PageDown"
    /\ response.ok
    /\ terminal.ptyIn = <<27, 91, 54, 126>>

\* C19 witness of the error: an unknown name answered with an error, the
\* PTY input as the request before left it.
C19_WitnessUnknown ==
    /\ lastOp.op = "send_key" /\ lastOp.arg.key = "enter"
    /\ ~response.ok /\ response.error = "unknown key"
    /\ terminal.ptyIn = EchoHi

\* the bytes the claim gives a request: the text and a carriage return iff
\* send_enter, or the key's sequence of the table
ReqBytes(req) ==
    IF req.action = "send_keys"
    THEN req.text \o (IF req.send_enter THEN <<13>> ELSE <<>>)
    ELSE IF req.action = "send_key" /\ req.key \in DOMAIN KeyTable THEN KeyTable[req.key]
    ELSE <<>>

RECURSIVE BytesOf(_, _, _)
\* the bytes of the requests from index i on, in order; okOnly keeps the
\* requests answered ok = true
BytesOf(i, okOnly, acc) ==
    IF i > Len(received) THEN acc
    ELSE BytesOf(i + 1, okOnly,
                 IF okOnly /\ ~sent[i].ok THEN acc ELSE acc \o ReqBytes(received[i]))

-----------------------------------------------------------------------------
(* The daemon serving set_option requests while the pump fills the
   scrollback. *)

\* strconv.Atoi on any string: an optional sign, then decimal digits only;
\* ok = FALSE for a syntax error or a value out of the int range
strconvAtoi(str) ==
    LET signed == str # <<>> /\ Head(str) \in {43, 45}
        digits == IF signed THEN Tail(str) ELSE str
        v      == IF digits = <<>> THEN -1 ELSE AtoiDigits(digits, 0)
    IN  IF v < 0 THEN [ok |-> FALSE, n |-> 0]
        ELSE [ok |-> TRUE, n |-> IF Head(str) = 45 THEN 0 - v ELSE v]

\* handleSetOption that takes every option name for history-limit
handleSetOption_AnyOption(b, req) ==
    IF ~strconvAtoi(req.value).ok \/ strconvAtoi(req.value).n <= 0
    THEN [b |-> b, resp |-> RespError("invalid history-limit value")]
    ELSE [b |-> SetCapacity(b, strconvAtoi(req.value).n), resp |-> RespOK]

\* Daemon.handleSetOption: the scrollback after it and the response
handleSetOption(b, req) ==
    IF req.option = "history-limit"
    THEN IF ~strconvAtoi(req.value).ok \/ strconvAtoi(req.value).n <= 0
         THEN [b |-> b, resp |-> RespError("invalid history-limit value")]
         ELSE [b |-> SetCapacity(b, strconvAtoi(req.value).n), resp |-> RespOK]
    ELSE [b |-> b, resp |-> RespError("unknown option")]

\* values of set_option requests: the numerals of 0..MaxCap, with a sign,
\* with a leading zero, one above the int range, and strings that are no
\* numerals
OptionValues ==
    {Digits(n) : n \in 0..MaxCap}
    \cup {<<43>> \o Digits(MaxCap), <<45>> \o Digits(1), <<Digit0>> \o Digits(MaxCap),
          Digits(MaxInt + 1), <<>>, <<LetterA>>, Digits(1) \o <<LetterA>>,
          <<SP>> \o Digits(1), <<43>>, Digits(1) \o <<46, Digit0>>}

\* set_option requests: history-limit with every value, and other option
\* names with a good value
SetOptionRequests ==
    {[action |-> "set_option", option |-> "history-limit", value |-> v] :
         v \in OptionValues}
    \cup {[action |-> "set_option", option |-> o, value |-> Digits(1)] :
              o \in {"", "History-Limit", "history-limit ", "mouse"}}

DoSetOption ==
    \E req \in SetOptionRequests :
        \E r \in {handleSetOption(buffer, req)} :
            /\ buffer' = r.b
            /\ response' = r.resp
            /\ resized' = (resized \/ r.b.capacity # buffer.capacity)
            /\ lastOp' = [op |-> "set_option", arg |-> req, cap |-> buffer.capacity]
            /\ UNCHANGED <<stream, scrVars, pipePaneFile, files, paneVars, pumpPC, pumpData,
                           ipcVars, lifeVars>>

OptionNext == ReadOutputChunk \/ ReadOutputTee \/ DoSetOption

SpecOption == DaemonInit /\ [][OptionNext]_vars

\* the strings that are numerals of a positive integer of the int range: an
\* optional plus sign, any zeros, then the digits of the number
PositiveNumeral(str, n) ==
    \E zeros \in 0..2 :
        \E sign \in {<<>>, <<43>>} :
            str = sign \o [i \in 1..zeros |-> Digit0] \o Digits(n)

\* the request values that are the numeral of a positive integer, each with
\* its number
NumeralOf ==
    [str \in {v \in OptionValues : \E n \in 1..MaxInt : PositiveNumeral(v, n)} |->
        CHOOSE n \in 1..MaxInt : PositiveNumeral(str, n)]

\* C21: a set_option request is answered ok = true exactly when its option
\* is history-limit and its value is the numeral of a positive integer n,
\* and then the scrollback capacity is n; in every other case the answer is
\* ok = false with an error and the scrollback is what it was.
C21_SetOption ==
    [][lastOp'.op = "set_option" =>
           LET req == lastOp'.arg
           IN  IF req.option = "history-limit" /\ req.value \in DOMAIN NumeralOf
               THEN /\ response'.ok
                    /\ buffer'.capacity = NumeralOf[req.value]
                    /\ buffer'.partial = buffer.partial
               ELSE /\ ~response'.ok /\ response'.error # ""
                    /\ buffer' = buffer]_vars

\* C21 witness: a scrollback of two lines was cut to capacity 1 by the value
\* "1", keeping the newer line.
C21_Witness ==
    /\ lastOp.op = "set_option" /\ lastOp.arg.value = Digits(1)
    /\ lastOp.cap = DefaultCapacity
    /\ response.ok
    /\ buffer.capacity = 1 /\ buffer.count = 1
    /\ NumNL(stream) = 2

\* C21 witness of the error: the value "0" was refused with the scrollback
\* holding a line.
C21_WitnessRefused ==
    /\ lastOp.op = "set_option" /\ lastOp.arg.value = Digits(0)
    /\ ~response.ok
    /\ buffer.capacity = DefaultCapacity /\ buffer.count = 1

-----------------------------------------------------------------------------
(* The tee under concurrent pipe_pane handlers, the pump and cleanup, one
   statement of the code at a time. *)

\* the number of pipe_pane requests handled in one run
MaxHandlers == 2

\* (*sync.Mutex).Lock that never waits
Lock_NoWait(holder) == TRUE

\* (*sync.Mutex).Lock returns only when no goroutine holds the mutex
Lock(holder) == holder = "free"

\* the step leaves everything but the tee and the positions of its users alone
PaneStep(op, who) ==
    /\ lastOp' = [op |-> op, arg |-> who, cap |-> buffer.capacity]
    /\ UNCHANGED <<bufVars, scrVars, pumpData, ipcVars, terminal, done, listener,
                   watchPC, controlFile, trail, conns, concVars>>

\* handleConnection dispatches a pipe_pane request to a new handlePipePane
\* call; f is the handler's local file variable
PipeStart ==
    \E shellCmd \in PipeCmds :
        /\ Len(handlers) < MaxHandlers
        /\ handlers' = Append(handlers, [pc |-> "lock", cmd |-> shellCmd, f |-> NilFile,
                                         resp |-> NoResponse])
        /\ PaneStep("pipe_pane", Len(handlers) + 1)
        /\ UNCHANGED <<pipePaneFile, files, openFiles, pipePaneMu, response, pumpPC,
                       mainPC>>

\* handlePipePane: d.pipePaneMu.Lock()
PipeLock(h) ==
    /\ handlers[h].pc = "lock"
    /\ Lock(pipePaneMu)
    /\ pipePaneMu' = ToString(h)
    /\ handlers' = [handlers EXCEPT ![h].pc = "close"]
    /\ PaneStep("pipe_pane lock", h)
    /\ UNCHANGED <<pipePaneFile, files, openFiles, response, pumpPC, mainPC>>

\* handlePipePane: the old tee is closed and forgotten, then the command is
\* looked at
PipeClose(h) ==
    /\ handlers[h].pc = "close"
    /\ pipePaneFile' = NilFile
    /\ openFiles' = IF pipePaneFile.isNil THEN openFiles
                    ELSE FileClose(openFiles, pipePaneFile)
    /\ handlers' =
           IF handlers[h].cmd = <<>>
           THEN [handlers EXCEPT ![h].pc = "return", ![h].resp = RespOK]
           ELSE IF extractPipePath(handlers[h].cmd) = <<>>
           THEN [handlers EXCEPT ![h].pc = "return",
                                 ![h].resp = RespError("unsupported pipe-pane command")]
           ELSE [handlers EXCEPT ![h].pc = "open"]
    /\ PaneStep("pipe_pane close", h)
    /\ UNCHANGED <<files, pipePaneMu, response, pumpPC, mainPC>>

\* handlePipePane: os.OpenFile fails, or makes the file if there is none
\* and returns a new handle
PipeOpen(h) ==
    \E openOK \in BOOLEAN :
        LET path == extractPipePath(handlers[h].cmd)
        IN  /\ handlers[h].pc = "open"
            /\ IF openOK
               THEN /\ files' = IF path \in DOMAIN files THEN files
                                ELSE (path :> <<>>) @@ files
                    /\ openFiles' = openFiles + 1
                    /\ handlers' = [handlers EXCEPT
                           ![h].pc = "assign",
                           ![h].f = [isNil |-> FALSE, path |-> path, closed |-> FALSE]]
               ELSE /\ UNCHANGED <<files, openFiles>>
                    /\ handlers' = [handlers EXCEPT ![h].pc = "return",
                                                    ![h].resp = RespError("open")]
            /\ PaneStep("pipe_pane open", h)
            /\ UNCHANGED <<pipePaneFile, pipePaneMu, response, pumpPC, mainPC>>

\* handlePipePane: d.pipePaneFile = f
PipeAssign(h) ==
    /\ handlers[h].pc = "assign"
    /\ pipePaneFile' = handlers[h].f
    /\ handlers' = [handlers EXCEPT ![h].pc = "return", ![h].resp = RespOK]
    /\ PaneStep("pipe_pane assign", h)
    /\ UNCHANGED <<files, openFiles, pipePaneMu, response, pumpPC, mainPC>>

\* handlePipePane returns: the deferred Unlock runs and the response goes
\* back to handleConnection
PipeReturn(h) ==
    /\ handlers[h].pc = "return"
    /\ pipePaneMu' = IF pipePaneMu = ToString(h) THEN "free" ELSE pipePaneMu
    /\ handlers' = [handlers EXCEPT ![h].pc = "returned"]
    /\ response' = handlers[h].resp
    /\ PaneStep("pipe_pane return", h)
    /\ UNCHANGED <<pipePaneFile, files, openFiles, pumpPC, mainPC>>

\* readOutput, from terminal.Read to the end of d.buffer.Write(data)
TeeRead == ReadOutput(ChildChunks)

\* readOutput: d.pipePaneMu.Lock()
TeeLock ==
    /\ pumpPC = "tee"
    /\ Lock(pipePaneMu)
    /\ pipePaneMu' = "pump"
    /\ pumpPC' = "write"
    /\ PaneStep("tee lock", 0)
    /\ UNCHANGED <<pipePaneFile, files, openFiles, handlers, concVars, response, mainPC>>

\* readOutput: the write to the tee, if there is one
TeeWrite ==
    /\ pumpPC = "write"
    /\ files' = IF pipePaneFile.isNil THEN files
                ELSE FileWrite(files, pipePaneFile, pumpData)
    /\ pumpPC' = "unlock"
    /\ PaneStep("tee write", 0)
    /\ UNCHANGED <<pipePaneFile, openFiles, pipePaneMu, handlers, concVars, response, mainPC>>

\* readOutput: d.pipePaneMu.Unlock()
TeeUnlock ==
    /\ pumpPC = "unlock"
    /\ pipePaneMu' = IF pipePaneMu = "pump" THEN "free" ELSE pipePaneMu
    /\ pumpPC' = "read"
    /\ PaneStep("tee unlock", 0)
    /\ UNCHANGED <<pipePaneFile, files, openFiles, handlers, concVars, response, mainPC>>

\* Run leaves the accept loop and cleanup takes d.pipePaneMu
PaneCleanupLock ==
    /\ mainPC = "accept"
    /\ Lock(pipePaneMu)
    /\ pipePaneMu' = "cleanup"
    /\ mainPC' = "tee"
    /\ PaneStep("cleanup lock", 0)
    /\ UNCHANGED <<pipePaneFile, files, openFiles, handlers, concVars, response, pumpPC>>

\* cleanup: the tee is closed, d.pipePaneFile keeps the closed file, and the
\* mutex is released
PaneCleanupClose ==
    /\ mainPC = "tee"
    /\ pipePaneFile' = IF pipePaneFile.isNil THEN pipePaneFile
                       ELSE [pipePaneFile EXCEPT !.closed = TRUE]
    /\ openFiles' = IF pipePaneFile.isNil THEN openFiles
                    ELSE FileClose(openFiles, pipePaneFile)
    /\ pipePaneMu' = IF pipePaneMu = "cleanup" THEN "free" ELSE pipePaneMu
    /\ mainPC' = "pty"
    /\ PaneStep("cleanup tee", 0)
    /\ UNCHANGED <<files, handlers, concVars, response, pumpPC>>

PaneNext ==
    \/ TeeRead
    \/ PipeStart
    \/ \E h \in DOMAIN handlers :
           PipeLock(h) \/ PipeClose(h) \/ PipeOpen(h) \/ PipeAssign(h) \/ PipeReturn(h)
    \/ TeeLock
    \/ TeeWrite
    \/ TeeUnlock
    \/ PaneCleanupLock
    \/ PaneCleanupClose

SpecPane == DaemonInit /\ [][PaneNext]_vars

\* the tee file d.pipePaneFile refers to is open
TeeOpen(f) == ~f.isNil /\ ~f.closed

\* C22: at most one tee file is open in every state, and when a pipe_pane
\* handler returns every tee that was open before it is closed: after an
\* empty command no tee is open and d.pipePaneFile is nil, after a command
\* that installed a path the only open tee is the new file on that path.
C22_OneTee ==
    /\ [](openFiles <= 1)
    /\ [][lastOp'.op = "pipe_pane return" =>
              LET h == handlers[lastOp'.arg]
              IN  /\ h.cmd = <<>> =>
                         /\ response'.ok
                         /\ pipePaneFile.isNil /\ openFiles = 0
                  /\ h.cmd # <<>> /\ response'.ok =>
                         /\ TeeOpen(pipePaneFile)
                         /\ pipePaneFile.path = extractPipePath(h.cmd)
                         /\ openFiles = 1
                  /\ pipePaneFile' = pipePaneFile /\ openFiles' = openFiles]_vars

\* C22 witness: two handlers have each installed a tee, the second while
\* the first one's tee was open and the pump stood between its read and its
\* write to the tee, and one tee is open.
C22_Witness ==
    /\ Len(handlers) = 2
    /\ \A h \in 1..2 : handlers[h].pc = "returned" /\ ~handlers[h].f.isNil
    /\ lastOp.op = "pipe_pane return"
    /\ pumpPC = "tee"
    /\ openFiles = 1 /\ TeeOpen(pipePaneFile)

\* C22 witness of the waiting: a handler holds the mutex with its new file
\* open and not yet installed, while the other handler and the pump wait
\* for the mutex.
C22_WitnessContended ==
    /\ Len(handlers) = 2
    /\ \E h \in 1..2 : handlers[h].pc = "assign" /\ pipePaneMu = ToString(h)
    /\ \E h \in 1..2 : handlers[h].pc = "lock"
    /\ pumpPC = "tee"

\* C22 witness of the removal: an empty command has closed an open tee.
C22_WitnessRemoved ==
    /\ Len(handlers) = 2
    /\ ~handlers[1].f.isNil /\ handlers[1].pc = "returned"
    /\ handlers[2].cmd = <<>> /\ handlers[2].pc = "returned"
    /\ openFiles = 0

-----------------------------------------------------------------------------
(* A buffer and a screen shared by two goroutines: one makes the calls that
   change them (Buffer.Write, Buffer.SetCapacity, Screen.Write), the other
   the captures (Buffer.Last, Buffer.LastWithPartial, Screen.Capture).  A
   call runs one statement or loop iteration at a time. *)

\* the number of calls each goroutine makes
MaxCalls == 2

\* (*sync.RWMutex).RLock that never waits
RLock_NoWait(m) == TRUE

\* (*sync.RWMutex).RLock returns only when no writer holds the mutex
RLock(m) == ~m.writer

\* (*sync.RWMutex).Lock returns only when no writer and no reader holds it
RWMutexLock(m) == ~m.writer /\ m.readers = 0

\* one iteration of the loop of Screen.Write: the screen after it and the
\* bytes left
WriteIteration(s, data) ==
    LET b == Head(data)
        d == DecodeRune(data)
    IN  IF s.pState # "psNorm" THEN [s |-> feedEsc(s, b), rest |-> Tail(data)]
        ELSE IF b < 32 \/ b = DEL THEN [s |-> feedCtrl(s, b), rest |-> Tail(data)]
        ELSE IF b < 128 THEN [s |-> putRune(s, b), rest |-> Tail(data)]
        ELSE IF d.r = RuneError /\ d.size <= 1 THEN
            IF Len(data) < 4 THEN [s |-> [s EXCEPT !.uBuf = data], rest |-> <<>>]
            ELSE [s |-> s, rest |-> Tail(data)]
        ELSE [s |-> putRune(s, d.r), rest |-> SubSeq(data, d.size + 1, Len(data))]

\* the calls of the changing goroutine
WriterCalls ==
    {[op |-> "Buffer.Write", arg |-> data] :
         data \in {<<LetterA, LF, LetterB>>, <<LetterB, LF>>}}
    \cup {[op |-> "SetCapacity", arg |-> n] : n \in {1, MaxCap}}
    \cup {[op |-> "Screen.Write", arg |-> data] :
              data \in {<<LetterA, LetterB>>, <<LetterB, CR, LF, LetterA>>}}

\* the calls of the capturing goroutine
ReaderCalls ==
    {[op |-> "Last", arg |-> MaxCap], [op |-> "LastWithPartial", arg |-> MaxCap],
     [op |-> "Capture", arg |-> 0]}

\* the object a call works on, which is the mutex it takes
ObjectOf(op) == IF op \in {"Screen.Write", "Capture"} THEN "screen" ELSE "buffer"

\* what a capture returns on buffer b and screen s
Captured(c, b, s) ==
    IF c.op = "Last" THEN Last(b, c.arg)
    ELSE IF c.op = "LastWithPartial" THEN LastWithPartial(b, c.arg)
    ELSE Capture(s, c.arg)

\* buffer and screen once the changing call c has run alone from x
After(c, x) ==
    IF c.op = "Buffer.Write" THEN [x EXCEPT !.buffer = BufferWrite(x.buffer, c.arg)]
    ELSE IF c.op = "SetCapacity" THEN [x EXCEPT !.buffer = SetCapacity(x.buffer, c.arg)]
    ELSE [x EXCEPT !.screen = ScreenWrite(x.screen, c.arg)]

ConcInit ==
    /\ NoIpc
    /\ NoSession
    /\ buffer = NewBuffer(MaxCap)
    /\ stream = <<>>
    /\ resized = FALSE
    /\ lastOp = [op |-> "New", arg |-> MaxCap, cap |-> MaxCap]
    /\ screen = NewScreen(ScreenCols, ScreenRows)
    /\ writes = 0
    /\ pipePaneFile = NilFile
    /\ files = <<>>
    /\ openFiles = 0
    /\ pipePaneMu = "free"
    /\ handlers = <<>>
    /\ response = NoResponse
    /\ pumpPC = "done"
    /\ pumpData = <<>>
    /\ mu = [buffer |-> FreeMutex, screen |-> FreeMutex]
    /\ calls = [writer |-> Idle, reader |-> Idle, reads |-> 0]
    /\ settled = [buffer |-> NewBuffer(MaxCap),
                  screen |-> NewScreen(ScreenCols, ScreenRows)]
    /\ construction = <<>>
    /\ client = <<>>

\* the step leaves the daemon's parts alone
ConcStep(op, c) ==
    /\ lastOp' = [op |-> op, arg |-> c, cap |-> buffer.capacity]
    /\ UNCHANGED <<pipePaneFile, files, openFiles, pipePaneMu, handlers, response, pumpPC,
                   pumpData, ipcVars, lifeVars>>

\* the changing goroutine enters a call
WriterCall ==
    \E c \in WriterCalls :
        /\ calls.writer.pc = "idle"
        /\ writes < MaxCalls
        /\ writes' = writes + 1
        /\ calls' = [calls EXCEPT !.writer = [pc |-> "lock", op |-> c.op, arg |-> c.arg,
                                              rest |-> <<>>]]
        /\ ConcStep("call", c)
        /\ UNCHANGED <<bufVars, screen, mu, settled, construction, client>>

\* Write and SetCapacity: mu.Lock()
WriterLock ==
    LET c == calls.writer
    IN  /\ c.pc = "lock"
        /\ RWMutexLock(mu[ObjectOf(c.op)])
        /\ mu' = [mu EXCEPT ![ObjectOf(c.op)].writer = TRUE]
        /\ calls' = [calls EXCEPT !.writer.pc = "begin"]
        /\ ConcStep("lock", c.op)
        /\ UNCHANGED <<bufVars, scrVars, settled, construction, client>>

\* the statements before the loop: Buffer.Write has none, Screen.Write puts
\* the bytes kept from the last call in front, SetCapacity returns at once
\* or collects the lines and resets the ring
WriterBegin ==
    LET c == calls.writer
    IN  /\ c.pc = "begin"
        /\ IF c.op = "Buffer.Write"
           THEN /\ calls' = [calls EXCEPT !.writer.pc = "loop", !.writer.rest = c.arg]
                /\ UNCHANGED <<bufVars, scrVars>>
           ELSE IF c.op = "Screen.Write"
           THEN /\ calls' = [calls EXCEPT !.writer.pc = "loop",
                                          !.writer.rest = screen.uBuf \o c.arg]
                /\ screen' = [screen EXCEPT !.uBuf = <<>>]
                /\ UNCHANGED <<bufVars, writes>>
           ELSE IF c.arg <= 0 \/ c.arg = buffer.capacity
           THEN /\ calls' = [calls EXCEPT !.writer.pc = "unlock"]
                /\ UNCHANGED <<bufVars, scrVars>>
           ELSE LET old   == getLinesLocked(buffer, buffer.count).elems
                    start == IF Len(old) > c.arg THEN Len(old) - c.arg ELSE 0
                IN  /\ calls' = [calls EXCEPT
                           !.writer.pc = "loop",
                           !.writer.rest = SubSeq(old, start + 1, Len(old))]
                    /\ buffer' = [lines    |-> [i \in 1..c.arg |-> <<>>],
                                  capacity |-> c.arg,
                                  head     |-> 0,
                                  count    |-> 0,
                                  partial  |-> buffer.partial]
                    /\ resized' = TRUE
                    /\ UNCHANGED <<stream, scrVars>>
        /\ ConcStep("begin", c.op)
        /\ UNCHANGED <<mu, settled, construction, client>>

\* one iteration of the loop of the call, or its end
WriterLoop ==
    LET c == calls.writer
    IN  /\ c.pc = "loop"
        /\ IF c.rest = <<>> \/ (c.op = "Screen.Write" /\ screen.panicked)
           THEN /\ calls' = [calls EXCEPT !.writer.pc = "unlock"]
                /\ UNCHANGED <<bufVars, scrVars>>
           ELSE IF c.op = "Buffer.Write"
           THEN /\ buffer' = BufferWriteByte(buffer, Head(c.rest))
                /\ stream' = Append(stream, Head(c.rest))
                /\ calls' = [calls EXCEPT !.writer.rest = Tail(c.rest)]
                /\ UNCHANGED <<resized, scrVars>>
           ELSE IF c.op = "Screen.Write"
           THEN \E it \in {WriteIteration(screen, c.rest)} :
                    /\ screen' = it.s
                    /\ calls' = [calls EXCEPT !.writer.rest = it.rest]
                    /\ UNCHANGED <<bufVars, writes>>
           ELSE /\ buffer' = Recommit(buffer, <<Head(c.rest)>>)
                /\ calls' = [calls EXCEPT !.writer.rest = Tail(c.rest)]
                /\ UNCHANGED <<stream, resized, scrVars>>
        /\ ConcStep("loop", c.op)
        /\ UNCHANGED <<mu, settled, construction, client>>

\* the deferred mu.Unlock() as the call returns; a capture in progress has
\* now overlapped the state after this call
WriterUnlock ==
    LET c   == calls.writer
        now == [buffer |-> buffer, screen |-> screen]
    IN  /\ c.pc = "unlock"
        /\ mu' = [mu EXCEPT ![ObjectOf(c.op)].writer = FALSE]
        /\ settled' = now
        /\ UNCHANGED <<construction, client>>
        /\ calls' = [calls EXCEPT
               !.writer = Idle,
               !.reader = IF @.pc = "idle" THEN @
                          ELSE [@ EXCEPT !.seen = @ \cup {now}]]
        /\ ConcStep("unlock", c.op)
        /\ UNCHANGED <<bufVars, scrVars>>

\* the capturing goroutine enters a call
ReaderCall ==
    \E c \in ReaderCalls :
        /\ calls.reader.pc = "idle"
        /\ calls.reads < MaxCalls
        /\ calls' = [calls EXCEPT
               !.reads = @ + 1,
               !.reader = [pc |-> "rlock", op |-> c.op, arg |-> c.arg,
                           seen |-> {settled}, result |-> <<>>]]
        /\ ConcStep("call", c)
        /\ UNCHANGED <<bufVars, scrVars, mu, settled, construction, client>>

\* Last, LastWithPartial and Capture: mu.RLock()
ReaderLock ==
    LET c == calls.reader
    IN  /\ c.pc = "rlock"
        /\ RLock(mu[ObjectOf(c.op)])
        /\ mu' = [mu EXCEPT ![ObjectOf(c.op)].readers = @ + 1]
        /\ calls' = [calls EXCEPT !.reader.pc = "read"]
        /\ ConcStep("rlock", c.op)
        /\ UNCHANGED <<bufVars, scrVars, settled, construction, client>>

\* the body of the capture, on the object as it is now
ReaderRead ==
    LET c == calls.reader
    IN  /\ c.pc = "read"
        /\ calls' = [calls EXCEPT !.reader.pc = "return",
                                  !.reader.result = Captured(c, buffer, screen)]
        /\ ConcStep("read", c.op)
        /\ UNCHANGED <<bufVars, scrVars, mu, settled, construction, client>>

\* the deferred mu.RUnlock() as the capture returns its result
ReaderReturn ==
    LET c == calls.reader
    IN  /\ c.pc = "return"
        /\ mu' = [mu EXCEPT ![ObjectOf(c.op)].readers = @ - 1]
        /\ calls' = [calls EXCEPT !.reader = Idle]
        /\ ConcStep("capture return", c.op)
        /\ UNCHANGED <<bufVars, scrVars, settled, construction, client>>

ConcNext ==
    \/ WriterCall
    \/ WriterLock
    \/ WriterBegin
    \/ WriterLoop
    \/ WriterUnlock
    \/ ReaderCall
    \/ ReaderLock
    \/ ReaderRead
    \/ ReaderReturn

SpecConc == ConcInit /\ [][ConcNext]_vars

\* the states a capture may report: those the finished calls left while the
\* capture was in progress, and the one the changing call in progress will
\* leave
Reportable ==
    calls.reader.seen
    \cup (IF calls.writer.pc = "idle" THEN {}
          ELSE {After(calls.writer, settled)})

\* C23: what a capture returns is what the capture gives on the buffer and
\* screen as they were entirely before or entirely after each call that
\* overlapped it, never on a state inside a Write or a SetCapacity.
C23_CaptureAtomic ==
    [][lastOp'.op = "capture return" =>
           \E x \in Reportable :
               calls.reader.result = Captured(calls.reader, x.buffer, x.screen)]_vars

\* C23 witness: a LastWithPartial that began before a Buffer.Write took the
\* mutex returns after that Write has finished, with the lines the Write
\* left.
C23_Witness ==
    /\ calls.reader.pc = "return" /\ calls.reader.op = "LastWithPartial"
    /\ Cardinality(calls.reader.seen) = 2
    /\ lastOp.op = "read"
    /\ calls.reader.result = LastWithPartial(buffer, calls.reader.arg)
    /\ buffer.count > 0
    /\ \E x \in calls.reader.seen : x.buffer.count = 0

\* C23 witness of the waiting capture: a capture waits for the mutex while a
\* Write is between two of its bytes, the buffer differing from the state
\* before and the state after the call.
C23_WitnessMidWrite ==
    /\ calls.reader.pc = "rlock" /\ calls.reader.op = "LastWithPartial"
    /\ calls.writer.pc = "loop" /\ calls.writer.op = "Buffer.Write"
    /\ buffer # settled.buffer
    /\ buffer # After(calls.writer, settled).buffer

\* C23 witness for SetCapacity and the screen: a capture waits while
\* SetCapacity has emptied the ring, or while Screen.Write is between bytes.
C23_WitnessMidResize ==
    /\ calls.reader.pc = "rlock" /\ calls.reader.op = "Last"
    /\ calls.writer.pc = "loop" /\ calls.writer.op = "SetCapacity"
    /\ settled.buffer.count > 0 /\ buffer.count = 0

-----------------------------------------------------------------------------
(* The cursor-up and erase-line scenario, written to a fresh screen in
   chunks of any size. *)

\* the widest and the tallest screen of the scenario
MaxExampleCols == 6
MaxExampleRows == 3

\* AAA CR LF BBB CSI A CSI 2 K Z
Scenario ==
    <<LetterA, LetterA, LetterA, CR, LF, LetterB, LetterB, LetterB>>
    \o Csi(<<>>, 65) \o Csi(Digits(2), 75) \o <<90>>

ScenarioInit ==
    /\ NoDaemon
    /\ \E cols \in 4..MaxExampleCols, rows \in 2..MaxExampleRows :
           screen = NewScreen(cols, rows)
    /\ writes = 0
    /\ buffer = NewBuffer(1)
    /\ stream = <<>>
    /\ resized = FALSE
    /\ lastOp = [op |-> "New", arg |-> 0, cap |-> 0]

\* one Screen.Write call with the next bytes of the scenario
DoScenarioWrite ==
    \E k \in 1..MaxChunk :
        /\ Len(stream) + k <= Len(Scenario)
        /\ screen' = ScreenWrite(screen, SubSeq(Scenario, Len(stream) + 1, Len(stream) + k))
        /\ stream' = stream \o SubSeq(Scenario, Len(stream) + 1, Len(stream) + k)
        /\ writes' = writes + 1
        /\ lastOp' = [op |-> "Write", arg |-> k, cap |-> 0]
        /\ UNCHANGED <<buffer, resized, dmnVars, ipcVars, lifeVars>>

SpecScenario == ScenarioInit /\ [][DoScenarioWrite]_vars

\* C24 as stated: once the scenario is written, captured row 0 is four
\* spaces followed by Z and row 1 is BBB.
C24_FourSpaces ==
    stream = Scenario =>
        /\ Capture(screen, 0)[1] = <<SP, SP, SP, SP, 90>>
        /\ Capture(screen, 0)[2] = <<LetterB, LetterB, LetterB>>

\* C24 amended: once the scenario is written to a fresh screen of at least
\* 4 columns and 2 rows, captured row 0 is three spaces followed by Z (the
\* Z is in the column after BBB, the As are erased) and row 1 is BBB.
C24_ThreeSpaces ==
    stream = Scenario =>
        /\ Capture(screen, 0)[1] = <<SP, SP, SP, 90>>
        /\ Capture(screen, 0)[2] = <<LetterB, LetterB, LetterB>>
        /\ \A r \in 3..screen.rows : Capture(screen, 0)[r] = <<>>

\* C24 witness: the whole scenario was written, the two escape sequences
\* each cut by the end of a Write, on the widest screen.
C24_Witness ==
    /\ stream = Scenario
    /\ writes = 8
    /\ screen.cols = MaxExampleCols
    /\ screen.main.row = 0 /\ screen.main.col = 4

-----------------------------------------------------------------------------
(* pty.New on Windows, one system call at a time, each call succeeding or
   failing. *)

\* the OS resources New and startProcessWithPTY allocate
HandleNames ==
    {"ptyInRead", "ptyInWrite", "ptyOutRead", "ptyOutWrite", "hPC", "attrList",
     "process", "thread"}

\* no resource allocated yet
NoHandles == [h \in HandleNames |-> [made |-> FALSE, closes |-> 0]]

\* the system call returned the handles named
Allocate(hs, names) ==
    [h \in HandleNames |-> IF h \in names THEN [hs[h] EXCEPT !.made = TRUE] ELSE hs[h]]

\* syscall.CloseHandle, ClosePseudoConsole, DeleteProcThreadAttributeList
\* on each of the handles named
CloseHandle(hs, names) ==
    [h \in HandleNames |-> IF h \in names THEN [hs[h] EXCEPT !.closes = @ + 1] ELSE hs[h]]

\* syscall.UTF16PtrFromString fails on a string with a NUL byte
UTF16PtrFromString(str) == \A i \in 1..Len(str) : str[i] # 0

\* the command lines and working directories New is called with
Commands == {<<>>, <<99>>, <<99, 0>>}
Workdirs == {<<>>, <<100>>, <<100, 0>>}

NewInit ==
    /\ NoIpc
    /\ NoSession
    /\ buffer = NewBuffer(1)
    /\ stream = <<>>
    /\ resized = FALSE
    /\ lastOp = [op |-> "New", arg |-> 0, cap |-> 0]
    /\ screen = NewScreen(ScreenCols, ScreenRows)
    /\ writes = 0
    /\ pipePaneFile = NilFile
    /\ files = <<>>
    /\ openFiles = 0
    /\ pipePaneMu = "free"
    /\ handlers = <<>>
    /\ response = NoResponse
    /\ pumpPC = "done"
    /\ pumpData = <<>>
    /\ mu = [buffer |-> FreeMutex, screen |-> FreeMutex]
    /\ calls = [writer |-> Idle, reader |-> Idle]
    /\ settled = <<>>
    /\ \E command \in Commands, workdir \in Workdirs :
           construction = [pc |-> "input pipe", command |-> command, workdir |-> workdir,
                           handles |-> NoHandles, err |-> ""]
    /\ client = <<>>

\* the step moves New to position pc with the handles hs and the error err
NewStep(op, pc, hs, err) ==
    /\ construction' = [construction EXCEPT !.pc = pc, !.handles = hs, !.err = err]
    /\ lastOp' = [op |-> op, arg |-> err, cap |-> 0]
    /\ UNCHANGED <<bufVars, scrVars, pipePaneFile, files, openFiles, pipePaneMu, handlers,
                   response, pumpPC, pumpData, ipcVars, lifeVars, mu, calls, settled,
                   client>>

\* New: syscall.CreatePipe for the input pipe
CreateInputPipe ==
    /\ construction.pc = "input pipe"
    /\ \/ NewStep("CreatePipe", "output pipe",
                  Allocate(construction.handles, {"ptyInRead", "ptyInWrite"}), "")
       \/ NewStep("CreatePipe", "failed", construction.handles, "create input pipe")

\* New: syscall.CreatePipe for the output pipe, and its error path
CreateOutputPipe ==
    /\ construction.pc = "output pipe"
    /\ \/ NewStep("CreatePipe", "console",
                  Allocate(construction.handles, {"ptyOutRead", "ptyOutWrite"}), "")
       \/ NewStep("CreatePipe", "failed",
                  CloseHandle(construction.handles, {"ptyInRead", "ptyInWrite"}),
                  "create output pipe")

\* New: CreatePseudoConsole, and its error path
CreatePseudoConsole ==
    /\ construction.pc = "console"
    /\ \/ NewStep("CreatePseudoConsole", "close ends",
                  Allocate(construction.handles, {"hPC"}), "")
       \/ NewStep("CreatePseudoConsole", "failed",
                  CloseHandle(construction.handles,
                              {"ptyInRead", "ptyInWrite", "ptyOutRead", "ptyOutWrite"}),
                  "CreatePseudoConsole failed")

\* New: the pipe ends the console has taken are closed
CloseEnds ==
    /\ construction.pc = "close ends"
    /\ NewStep("CloseHandle", "attr size",
               CloseHandle(construction.handles, {"ptyInRead", "ptyOutWrite"}), "")

\* startProcessWithPTY: InitializeProcThreadAttributeList; the deferred
\* delete is registered only after it succeeded
InitializeAttrList ==
    /\ construction.pc = "attr size"
    /\ \/ NewStep("InitializeProcThreadAttributeList", "attr update",
                  Allocate(construction.handles, {"attrList"}), "")
       \/ NewStep("InitializeProcThreadAttributeList", "start failed",
                  construction.handles, "InitializeProcThreadAttributeList")

\* startProcessWithPTY returns err: the deferred
\* DeleteProcThreadAttributeList runs
StartReturnsError(op, err) ==
    NewStep(op, "start failed", CloseHandle(construction.handles, {"attrList"}), err)

\* startProcessWithPTY: UpdateProcThreadAttribute
UpdateAttribute ==
    /\ construction.pc = "attr update"
    /\ \/ NewStep("UpdateProcThreadAttribute", "command line", construction.handles, "")
       \/ StartReturnsError("UpdateProcThreadAttribute", "UpdateProcThreadAttribute")

\* startProcessWithPTY: the command line and the working directory as
\* UTF-16
ConvertStrings ==
    /\ construction.pc = "command line"
    /\ IF ~UTF16PtrFromString(construction.command)
       THEN StartReturnsError("UTF16PtrFromString", "invalid argument")
       ELSE IF construction.workdir # <<>> /\ ~UTF16PtrFromString(construction.workdir)
       THEN StartReturnsError("UTF16PtrFromString", "invalid argument")
       ELSE NewStep("UTF16PtrFromString", "create process", construction.handles, "")

\* startProcessWithPTY: syscall.CreateProcess
CreateProcess ==
    /\ construction.pc = "create process"
    /\ \/ NewStep("CreateProcess", "close thread",
                  Allocate(construction.handles, {"process", "thread"}), "")
       \/ StartReturnsError("CreateProcess", "CreateProcess")

\* startProcessWithPTY: the thread handle is closed and the process handle
\* returned, the deferred delete running on the way
StartReturns ==
    /\ construction.pc = "close thread"
    /\ NewStep("startProcessWithPTY", "returned",
               CloseHandle(construction.handles, {"thread", "attrList"}), "")

\* the error path of New that leaves the pseudo console open
StartFailed_KeepConsole ==
    /\ construction.pc = "start failed"
    /\ NewStep("New", "failed",
               CloseHandle(construction.handles, {"ptyInWrite", "ptyOutRead"}),
               "start process")

\* New: the error path after startProcessWithPTY failed
StartFailed ==
    /\ construction.pc = "start failed"
    /\ NewStep("New", "failed",
               CloseHandle(construction.handles, {"hPC", "ptyInWrite", "ptyOutRead"}),
               "start process")

NewNext ==
    \/ CreateInputPipe
    \/ CreateOutputPipe
    \/ CreatePseudoConsole
    \/ CloseEnds
    \/ InitializeAttrList
    \/ UpdateAttribute
    \/ ConvertStrings
    \/ CreateProcess
    \/ StartReturns
    \/ StartFailed

SpecNew == NewInit /\ [][NewNext]_vars

\* the handles allocated and not closed
OpenHandles ==
    {h \in HandleNames : construction.handles[h].made /\ construction.handles[h].closes = 0}

\* C25: no handle is ever closed twice or closed without having been
\* allocated; when New returns an error every handle allocated so far has
\* been closed once; when New returns the terminal exactly the input-write
\* end, the output-read end, the pseudo console and the process are open.
C25_HandlesReleased ==
    /\ \A h \in HandleNames :
           /\ construction.handles[h].closes <= 1
           /\ construction.handles[h].closes = 1 => construction.handles[h].made
    /\ construction.pc = "failed" => OpenHandles = {} /\ construction.err # ""
    /\ construction.pc = "returned" =>
           OpenHandles = {"ptyInWrite", "ptyOutRead", "hPC", "process"}

\* C25 witness: the child could not be started after the console was made,
\* and the six handles allocated are closed.
C25_Witness ==
    /\ construction.pc = "failed" /\ lastOp.op = "New"
    /\ {h \in HandleNames : construction.handles[h].made}
           = {"ptyInRead", "ptyInWrite", "ptyOutRead", "ptyOutWrite", "hPC", "attrList"}
    /\ OpenHandles = {}

\* C25 witness of the other failures and of success.
C25_WitnessPipe ==
    /\ construction.pc = "failed" /\ construction.err = "create output pipe"
    /\ construction.handles["ptyInRead"].closes = 1

C25_WitnessConsole ==
    /\ construction.pc = "failed" /\ construction.err = "CreatePseudoConsole failed"
    /\ construction.handles["ptyOutWrite"].closes = 1

C25_WitnessSuccess ==
    /\ construction.pc = "returned"
    /\ construction.handles["thread"].closes = 1

-----------------------------------------------------------------------------
(* The wintmux client: one run of a subcommand against a daemon that may be
   unreachable at each request. *)

\* main.go specialKeys
specialKeys ==
    {"Enter", "Escape", "BSpace", "Tab", "Space", "C-c", "C-d", "C-z", "Up", "Down",
     "Left", "Right", "Home", "End", "DC", "PageUp", "PageDown"}

\* what a request meets: the control file (missing, not JSON, good), the
\* daemon's port (listening or not), and the answer (none before the
\* deadline, or a response)
Worlds(action) ==
    {[file |-> f, listening |-> FALSE, answered |-> FALSE, ok |-> FALSE, exists |-> FALSE] :
         f \in {"missing", "garbage", "good"}}
    \cup {[file |-> "good", listening |-> TRUE, answered |-> FALSE, ok |-> FALSE,
           exists |-> FALSE]}
    \cup {[file |-> "good", listening |-> TRUE, answered |-> TRUE, ok |-> ok,
           exists |-> exists] :
              ok \in IF action = "has_session" THEN {TRUE} ELSE BOOLEAN,
              exists \in IF action = "has_session" THEN BOOLEAN ELSE {FALSE}}

\* ipc.Connect: the error, "" for a connection
Connect(w) ==
    IF w.file # "good" THEN "session not found"
    ELSE IF ~w.listening THEN "session not running"
    ELSE ""

\* ipc.SendRequest: the error, or the response
SendRequest(w) ==
    IF Connect(w) # "" THEN [err |-> Connect(w), ok |-> FALSE, exists |-> FALSE]
    ELSE IF ~w.answered THEN [err |-> "read response", ok |-> FALSE, exists |-> FALSE]
    ELSE [err |-> "", ok |-> w.ok, exists |-> w.exists]

\* the tail of executeSendKeys (literal), executeCapturePane,
\* executeSetOption and executePipePane: the exit code for the outcome r
executeReply(r) ==
    IF r.err # "" THEN 1
    ELSE IF ~r.ok THEN 1
    ELSE 0

\* executeHasSession: the exit code for the outcome r
executeHasSession(r) ==
    IF r.err # "" THEN 1
    ELSE IF r.exists THEN 0
    ELSE 1

\* executeKillSession: the exit code for the outcome r
executeKillSession(r) ==
    IF r.err # "" THEN 0
    ELSE IF ~r.ok THEN 1
    ELSE 0

\* the subcommands as cli.Parse hands them to execute
ClientCommands ==
    {[type |-> "send-keys", literal |-> l, keys |-> k] :
         l \in BOOLEAN,
         k \in {<<>>, <<"Enter">>, <<"a">>, <<"a", "Enter">>, <<"Up", "enter">>,
                <<"a", "b", "Enter">>}}
    \cup {[type |-> c, literal |-> FALSE, keys |-> <<>>] :
              c \in {"capture-pane", "has-session", "kill-session", "set-option",
                     "pipe-pane"}}

\* the action of the request a subcommand sends; key is the key in hand
ActionOf(cmd, key) ==
    IF cmd.type = "send-keys"
    THEN IF ~cmd.literal /\ key \in specialKeys THEN "send_key" ELSE "send_keys"
    ELSE IF cmd.type = "capture-pane" THEN "capture_pane"
    ELSE IF cmd.type = "has-session" THEN "has_session"
    ELSE IF cmd.type = "kill-session" THEN "kill_session"
    ELSE IF cmd.type = "set-option" THEN "set_option"
    ELSE "pipe_pane"

ClientInit ==
    /\ NoIpc
    /\ NoSession
    /\ buffer = NewBuffer(1)
    /\ stream = <<>>
    /\ resized = FALSE
    /\ lastOp = [op |-> "main", arg |-> 0, cap |-> 0]
    /\ screen = NewScreen(ScreenCols, ScreenRows)
    /\ writes = 0
    /\ pipePaneFile = NilFile
    /\ files = <<>>
    /\ openFiles = 0
    /\ pipePaneMu = "free"
    /\ handlers = <<>>
    /\ response = NoResponse
    /\ pumpPC = "done"
    /\ pumpData = <<>>
    /\ mu = [buffer |-> FreeMutex, screen |-> FreeMutex]
    /\ calls = [writer |-> Idle, reader |-> Idle]
    /\ settled = <<>>
    /\ construction = <<>>
    /\ \E cmd \in ClientCommands :
           client = [cmd |-> cmd, pc |-> "run", next |-> 1, outcomes |-> <<>>,
                     exit |-> 0 - 1]

\* the client goes on to position pc having met the outcome r
ClientStep(op, pc, next, rs, exit) ==
    /\ client' = [client EXCEPT !.pc = pc, !.next = next, !.outcomes = rs, !.exit = exit]
    /\ lastOp' = [op |-> op, arg |-> exit, cap |-> 0]
    /\ UNCHANGED <<bufVars, scrVars, pipePaneFile, files, openFiles, pipePaneMu, handlers,
                   response, pumpPC, pumpData, ipcVars, lifeVars, mu, calls, settled,
                   construction>>

\* executeSendKeys without -l: one request per key, stopping at the first
\* that fails; with no key left the exit code is 0
ExecuteSendKeysLoop ==
    /\ client.pc = "run"
    /\ client.cmd.type = "send-keys" /\ ~client.cmd.literal
    /\ IF client.next > Len(client.cmd.keys)
       THEN ClientStep("send-keys", "exited", client.next, client.outcomes, 0)
       ELSE \E w \in Worlds(ActionOf(client.cmd, client.cmd.keys[client.next])) :
                \E r \in {SendRequest(w)} :
                    IF executeReply(r) # 0
                    THEN ClientStep("send-keys", "exited", client.next,
                                    Append(client.outcomes, r), executeReply(r))
                    ELSE ClientStep("send-keys", "run", client.next + 1,
                                    Append(client.outcomes, r), client.exit)

\* executeSendKeys with -l, executeCapturePane, executeSetOption and
\* executePipePane: one request
ExecuteOne ==
    /\ client.pc = "run"
    /\ \/ client.cmd.type = "send-keys" /\ client.cmd.literal
       \/ client.cmd.type \in {"capture-pane", "set-option", "pipe-pane"}
    /\ \E w \in Worlds(ActionOf(client.cmd, "")) :
           \E r \in {SendRequest(w)} :
               ClientStep(client.cmd.type, "exited", client.next,
                          Append(client.outcomes, r), executeReply(r))

ExecuteHasSession ==
    /\ client.pc = "run"
    /\ client.cmd.type = "has-session"
    /\ \E w \in Worlds("has_session") :
           \E r \in {SendRequest(w)} :
               ClientStep("has-session", "exited", client.next,
                          Append(client.outcomes, r), executeHasSession(r))

ExecuteKillSession ==
    /\ client.pc = "run"
    /\ client.cmd.type = "kill-session"
    /\ \E w \in Worlds("kill_session") :
           \E r \in {SendRequest(w)} :
               ClientStep("kill-session", "exited", client.next,
                          Append(client.outcomes, r), executeKillSession(r))

ClientNext ==
    \/ ExecuteSendKeysLoop
    \/ ExecuteOne
    \/ ExecuteHasSession
    \/ ExecuteKillSession

SpecClient == ClientInit /\ [][ClientNext]_vars

\* a request of the run did not reach the daemon, or was answered ok = false
RequestFailed ==
    \E i \in 1..Len(client.outcomes) :
        client.outcomes[i].err # "" \/ ~client.outcomes[i].ok

\* C26: a client run exits with 1 when one of its requests did not reach
\* the daemon or was answered ok = false, and with 0 only when every
\* request succeeded.
C26_ExitCodes ==
    client.pc = "exited" =>
        /\ client.exit \in {0, 1}
        /\ RequestFailed => client.exit = 1
        /\ client.exit = 0 => ~RequestFailed

\* the same for every subcommand but kill-session
C26_ExitCodesButKill ==
    client.pc = "exited" /\ client.cmd.type # "kill-session" =>
        /\ client.exit \in {0, 1}
        /\ RequestFailed => client.exit = 1
        /\ client.exit = 0 => ~RequestFailed

\* a kill-session run that did not reach the daemon has exited with 0
C26_KillUnreachable ==
    /\ client.pc = "exited" /\ client.cmd.type = "kill-session"
    /\ client.outcomes[1].err = "session not found"
    /\ client.exit = 0

-----------------------------------------------------------------------------
(* The daemon serving connections: each accepted connection is handled by
   its own goroutine, which reads one frame, dispatches the request and
   writes the response. *)

\* the number of connections accepted in one run
MaxServed == 1

\* ipc.Action constants
ActionSendKey == <<115, 101, 110, 100, 95, 107, 101, 121>>
ActionCapture == <<99, 97, 112, 116, 117, 114, 101, 95, 112, 97, 110, 101>>
ActionHasSession == <<104, 97, 115, 95, 115, 101, 115, 115, 105, 111, 110>>
ActionKillSession == <<107, 105, 108, 108, 95, 115, 101, 115, 115, 105, 111, 110>>
ActionSetOption == <<115, 101, 116, 95, 111, 112, 116, 105, 111, 110>>
ActionPipePane == <<112, 105, 112, 101, 95, 112, 97, 110, 101>>
ActionAttach == <<97, 116, 116, 97, 99, 104>>

\* the key names and option names the requests carry, as Go strings
WireNames ==
    (<<69, 110, 116, 101, 114>> :> "Enter")
    @@ (<<85, 112>> :> "Up")
    @@ (<<101, 110, 116, 101, 114>> :> "enter")
    @@ (<<104, 105, 115, 116, 111, 114, 121, 45, 108, 105, 109, 105, 116>> :> "history-limit")
    @@ (<<109, 111, 117, 115, 101>> :> "mouse")

\* the Go string of a name on the wire
NameOf(bytes) == IF bytes \in DOMAIN WireNames THEN WireNames[bytes] ELSE ""

\* the daemon's state the handlers work on
DaemonState ==
    [terminal |-> terminal, buffer |-> buffer, pipePaneFile |-> pipePaneFile,
     files |-> files, openFiles |-> openFiles]

\* Daemon.handlePipePane, from Lock to the deferred Unlock
handlePipePane(d, shellCmd, openOK) ==
    LET path     == extractPipePath(shellCmd)
        released == [d EXCEPT
                        !.pipePaneFile = NilFile,
                        !.openFiles = IF d.pipePaneFile.isNil THEN @
                                      ELSE FileClose(@, d.pipePaneFile)]
    IN  IF shellCmd = <<>> THEN [d |-> released, resp |-> RespOK]
        ELSE IF path = <<>>
        THEN [d |-> released, resp |-> RespError("unsupported pipe-pane command")]
        ELSE IF ~openOK THEN [d |-> released, resp |-> RespError("open")]
        ELSE [d |-> [released EXCEPT
                        !.pipePaneFile = [isNil |-> FALSE, path |-> path, closed |-> FALSE],
                        !.files = IF path \in DOMAIN @ THEN @ ELSE (path :> <<>>) @@ @,
                        !.openFiles = @ + 1],
              resp |-> RespOK]

\* the response of a handler without the fields only handleCapture and
\* handleHasSession set
Plain(resp) == [ok |-> resp.ok, output |-> resp.output, error |-> resp.error]

\* dispatch that takes attach for kill_session
dispatch_AttachKills(d, req, openOK) ==
    IF req.action = ActionAttach
    THEN [d |-> [d EXCEPT !.terminal = handleKillSession(d.terminal).t],
          resp |-> handleKillSession(d.terminal).resp]
    ELSE [d |-> d, resp |-> RespError("unknown action")]

\* Daemon.dispatch: the daemon's state after the handler and the response
dispatch(d, req, openOK) ==
    IF req.action = ActionPing THEN [d |-> d, resp |-> RespOK]
    ELSE IF req.action = ActionSendKeys
    THEN [d |-> [d EXCEPT !.terminal = handleSendKeys(d.terminal, req).t],
          resp |-> handleSendKeys(d.terminal, req).resp]
    ELSE IF req.action = ActionSendKey
    THEN [d |-> [d EXCEPT !.terminal = handleSendKey(d.terminal, [key |-> NameOf(req.key)]).t],
          resp |-> handleSendKey(d.terminal, [key |-> NameOf(req.key)]).resp]
    ELSE IF req.action = ActionCapture
    THEN [d |-> d, resp |-> handleCapture(d.buffer, req.lines)]
    ELSE IF req.action = ActionHasSession
    THEN [d |-> d, resp |-> handleHasSession]
    ELSE IF req.action = ActionKillSession
    THEN [d |-> [d EXCEPT !.terminal = handleKillSession(d.terminal).t],
          resp |-> handleKillSession(d.terminal).resp]
    ELSE IF req.action = ActionSetOption
    THEN [d |-> [d EXCEPT !.buffer =
                     handleSetOption(d.buffer, [option |-> NameOf(req.option),
                                                value |-> req.value]).b],
          resp |-> handleSetOption(d.buffer, [option |-> NameOf(req.option),
                                              value |-> req.value]).resp]
    ELSE IF req.action = ActionPipePane
    THEN handlePipePane(d, req.shell_cmd, openOK)
    ELSE [d |-> d, resp |-> RespError("unknown action")]

\* the actions dispatch has a case for
HandledActions ==
    {ActionPing, ActionSendKeys, ActionSendKey, ActionCapture, ActionHasSession,
     ActionKillSession, ActionSetOption, ActionPipePane}

\* the requests clients send: one of each action handled, and actions that
\* are not handled, with the fields a handler would act on filled in
ServeRequests ==
    {[ZeroRequest EXCEPT !.action = ActionPing],
     [ZeroRequest EXCEPT !.action = ActionSendKeys, !.text = <<LetterA>>],
     [ZeroRequest EXCEPT !.action = ActionSendKey, !.key = <<69, 110, 116, 101, 114>>],
     [ZeroRequest EXCEPT !.action = ActionCapture, !.lines = 1],
     [ZeroRequest EXCEPT !.action = ActionHasSession],
     [ZeroRequest EXCEPT !.action = ActionKillSession],
     [ZeroRequest EXCEPT !.action = ActionSetOption, !.option = <<104, 105, 115, 116, 111, 114, 121, 45, 108, 105, 109, 105, 116>>,
                         !.value = Digits(1)],
     [ZeroRequest EXCEPT !.action = ActionPipePane,
                         !.shell_cmd = CatWord \o <<SP>> \o AppendWord \o <<SP, 102>>]}
    \cup {[ZeroRequest EXCEPT !.action = a, !.text = <<LetterA>>, !.send_enter = TRUE,
                              !.key = <<69, 110, 116, 101, 114>>, !.option = <<104, 105, 115, 116, 111, 114, 121, 45, 108, 105, 109, 105, 116>>,
                              !.value = Digits(1),
                              !.shell_cmd = CatWord \o <<SP>> \o AppendWord \o <<SP, 102>>] :
              a \in {ActionAttach, <<>>, <<80, 73, 78, 71>>, <<107, 105, 108, 108>>}}

\* the bytes a client sends: a request in a frame, two requests in two
\* frames, half a header, a header declaring more than maxMessageSize, a
\* body cut short, and a body that is no JSON
ClientStreams ==
    {WriteMessage(Stream(<<>>, 0), req) : req \in ServeRequests}
    \cup {WriteMessage(WriteMessage(Stream(<<>>, 0),
                                    [ZeroRequest EXCEPT !.action = ActionPing]),
                       [ZeroRequest EXCEPT !.action = ActionKillSession]),
          Stream(<<0, 0>>, 0),
          Stream(Header(maxMessageSize + 1) \o EmptyObject, 0),
          Stream(<<0, 0, 0, 16>> \o EmptyObject, 0),
          Stream(Header(1) \o <<LetterA>>, 0)}

\* the daemon serving, with a line in the scrollback, with or without a
\* tee, the PTY open or already closed by an earlier kill_session
ServeInit ==
    /\ buffer = BufferWrite(NewBuffer(DefaultCapacity), <<LetterB, LF>>)
    /\ stream = <<LetterB, LF>>
    /\ resized = FALSE
    /\ lastOp = [op |-> "Run", arg |-> 0, cap |-> 0]
    /\ screen = NewScreen(ScreenCols, ScreenRows)
    /\ writes = 0
    /\ \/ pipePaneFile = NilFile /\ files = <<>> /\ openFiles = 0
       \/ pipePaneFile = TeeFile /\ files = (TeeFile.path :> <<>>) /\ openFiles = 1
    /\ pipePaneMu = "free"
    /\ handlers = <<>>
    /\ NoCalls
    /\ response = NoResponse
    /\ pumpPC = "read"
    /\ pumpData = <<>>
    /\ NoIpc
    /\ terminal \in {NewTerminal("conpty"), Close(NewTerminal("conpty")).t}
    /\ done = FALSE
    /\ listener = "open"
    /\ watchPC = "wait"
    /\ mainPC = "accept"
    /\ controlFile = TRUE
    /\ trail = <<>>
    /\ conns = <<>>

\* the step of the handler of connection i leaves all but the daemon's
\* objects and the connections alone
ServeStep(op, i) ==
    /\ lastOp' = [op |-> op, arg |-> i, cap |-> buffer.capacity]
    /\ UNCHANGED <<stream, scrVars, pipePaneMu, handlers, concVars, pumpPC, pumpData,
                   ipcVars, done, listener, watchPC, mainPC, controlFile, trail>>

\* acceptConnections: a connection is accepted and handed to a new
\* handleConnection goroutine; in is what the client sends on it
ServeAccept ==
    \E in \in ClientStreams :
        /\ Len(conns) < MaxServed
        /\ conns' = Append(conns, [in |-> in, pc |-> "read", req |-> ZeroRequest,
                                   resp |-> NoResponse, dispatched |-> 0,
                                   written |-> <<>>, closes |-> 0])
        /\ ServeStep("accept", Len(conns) + 1)
        /\ UNCHANGED <<buffer, resized, terminal, pipePaneFile, files, openFiles, response>>

\* handleConnection that dispatches whatever ReadMessage left in req
ServeRead_IgnoreError(i) ==
    \E got \in {ReadMessage(conns[i].in, "Request")} :
        /\ conns[i].pc = "read"
        /\ conns' = [conns EXCEPT ![i].in = got.rest, ![i].req = got.msg,
                                  ![i].pc = "dispatch"]
        /\ ServeStep(IF got.err # "" THEN "read failed" ELSE "read", i)
        /\ UNCHANGED <<buffer, resized, terminal, pipePaneFile, files, openFiles, response>>

\* handleConnection: ipc.ReadMessage(conn, &req); on an error the handler
\* returns
ServeRead(i) ==
    \E got \in {ReadMessage(conns[i].in, "Request")} :
        /\ conns[i].pc = "read"
        /\ conns' = [conns EXCEPT ![i].in = got.rest, ![i].req = got.msg,
                                  ![i].pc = IF got.err # "" THEN "return" ELSE "dispatch"]
        /\ ServeStep(IF got.err # "" THEN "read failed" ELSE "read", i)
        /\ UNCHANGED <<buffer, resized, terminal, pipePaneFile, files, openFiles, response>>

\* handleConnection: resp := d.dispatch(req)
ServeDispatch(i) ==
    \E openOK \in BOOLEAN :
        \E r \in {dispatch(DaemonState, conns[i].req, openOK)} :
            /\ conns[i].pc = "dispatch"
            /\ terminal' = r.d.terminal
            /\ buffer' = r.d.buffer
            /\ resized' = (resized \/ r.d.buffer.capacity # buffer.capacity)
            /\ pipePaneFile' = r.d.pipePaneFile
            /\ files' = r.d.files
            /\ openFiles' = r.d.openFiles
            /\ response' = r.resp
            /\ conns' = [conns EXCEPT ![i].resp = r.resp, ![i].pc = "write",
                                      ![i].dispatched = @ + 1]
            /\ ServeStep("dispatch", i)

\* handleConnection: ipc.WriteMessage(conn, resp), which reaches the client
\* or fails
ServeWrite(i) ==
    \E delivered \in BOOLEAN :
        /\ conns[i].pc = "write"
        /\ conns' = [conns EXCEPT
               ![i].written = IF delivered THEN Append(@, conns[i].resp) ELSE @,
               ![i].pc = "return"]
        /\ ServeStep("write", i)
        /\ UNCHANGED <<buffer, resized, terminal, pipePaneFile, files, openFiles, response>>

\* handleConnection returns: the deferred conn.Close()
ServeReturn(i) ==
    /\ conns[i].pc = "return"
    /\ conns' = [conns EXCEPT ![i].closes = @ + 1, ![i].pc = "returned"]
    /\ ServeStep("return", i)
    /\ UNCHANGED <<buffer, resized, terminal, pipePaneFile, files, openFiles, response>>

ServeNext ==
    \/ ServeAccept
    \/ \E i \in DOMAIN conns :
           ServeRead(i) \/ ServeDispatch(i) \/ ServeWrite(i) \/ ServeReturn(i)

SpecServe == ServeInit /\ [][ServeNext]_vars

\* C27: a request whose action is none of the eight handled ones, attach
\* included, is answered ok = false with an error, and its dispatch leaves
\* the PTY (input, open or closed), the scrollback and the tee as they were.
C27_UnknownAction ==
    [][lastOp'.op = "dispatch" /\ conns[lastOp'.arg].req.action \notin HandledActions =>
           /\ ~response'.ok /\ response'.error # ""
           /\ conns'[lastOp'.arg].resp = response'
           /\ terminal' = terminal
           /\ buffer' = buffer
           /\ <<pipePaneFile, files, openFiles>>' = <<pipePaneFile, files, openFiles>>
           /\ done' = done]_vars

\* C27 witness: an attach request carrying text, a key, an option and a
\* pipe command was dispatched with the PTY open and answered with an
\* error that was delivered.
C27_Witness ==
    \E i \in DOMAIN conns :
        /\ conns[i].req.action = ActionAttach
        /\ conns[i].req.text # <<>>
        /\ conns[i].pc = "returned"
        /\ conns[i].written = <<RespError("unknown action")>>
        /\ ~Closed(terminal)

\* C28: a connection is dispatched at most once and answered at most once,
\* and is closed, once, when its handler has returned; a connection whose
\* frame could not be decoded is never dispatched and never answered, and
\* the failed read leaves the daemon's state as it was.
C28_OneRequestPerConnection ==
    /\ [](\A i \in DOMAIN conns :
              /\ conns[i].dispatched <= 1
              /\ Len(conns[i].written) <= conns[i].dispatched
              /\ conns[i].closes = (IF conns[i].pc = "returned" THEN 1 ELSE 0))
    /\ [][lastOp'.op = "read failed" =>
              /\ conns'[lastOp'.arg].pc = "return"
              /\ conns'[lastOp'.arg].dispatched = 0
              /\ conns'[lastOp'.arg].written = <<>>
              /\ <<terminal, buffer, pipePaneFile, files, openFiles, done, response>>'
                     = <<terminal, buffer, pipePaneFile, files, openFiles, done, response>>]_vars
    /\ [][\A i \in DOMAIN conns :
              conns[i].pc = "return" /\ conns[i].dispatched = 0 =>
                  conns'[i].dispatched = 0 /\ conns'[i].written = <<>>]_vars

\* C28 witness: a connection that sent two frames was dispatched once,
\* answered once and closed with the second frame unread.
C28_Witness ==
    \E i \in DOMAIN conns :
        /\ conns[i].pc = "returned" /\ conns[i].dispatched = 1
        /\ Len(conns[i].written) = 1 /\ Len(conns[i].in.bytes) > 0
        /\ conns[i].closes = 1

\* C28 witness of the undecodable frame: a connection whose body was no
\* JSON was closed without dispatch or answer, the PTY open.
C28_WitnessNoJson ==
    \E i \in DOMAIN conns :
        /\ lastOp.op = "return" /\ lastOp.arg = i
        /\ conns[i].pc = "returned" /\ conns[i].dispatched = 0
        /\ conns[i].written = <<>> /\ conns[i].closes = 1
        /\ conns[i].req = ZeroRequest
        /\ ~Closed(terminal)

-----------------------------------------------------------------------------
(* The screen under an application that sets a scroll region, places the   *)
(* cursor and scrolls, inserts and deletes: one sequence per Write, on a    *)
(* screen whose cells all differ.                                           *)

\* number of Screen.Write calls in one behaviour of the scrolling scenario
MaxRegionWrites == 3

\* the letters that fill row r (0-based): no two cells of the screen agree
PaintedRow(r) == [j \in 1..ScreenCols |-> LetterA + r * ScreenCols + (j - 1)]

RECURSIVE PaintRows(_)
\* the bytes that fill rows r.. of the screen and bring the cursor home
PaintRows(r) ==
    IF r >= ScreenRows THEN Csi(<<>>, 72)
    ELSE PaintedRow(r) \o (IF r < ScreenRows - 1 THEN <<CR, LF>> ELSE <<>>)
             \o PaintRows(r + 1)

\* counts: absent, 2, the height of the screen, one more, the largest int
CountParams == {<<>>, Digits(2), Digits(ScreenRows), Digits(ScreenRows + 1),
                Digits(MaxInt)}

\* LF, ESC M, CSI n S, CSI n T, CSI n L, CSI n M
LineOps == {<<LF>>, <<ESC, 77>>} \cup {Csi(p, f) : p \in CountParams, f \in {83, 84, 76, 77}}

\* CSI n L, CSI n M
InsertDeleteLineOps == {Csi(p, f) : p \in CountParams, f \in {76, 77}}

\* CSI n @
InsertCharOps == {Csi(p, 64) : p \in CountParams}

\* CSI n P
DeleteCharOps == {Csi(p, 80) : p \in CountParams}

\* scroll regions: the default, all but the last row, all but the first row,
\* the second row alone, and top below bottom
RegionParams == {<<>>,
                 Digits(1) \o <<Semicolon>> \o Digits(ScreenRows - 1),
                 Digits(2) \o <<Semicolon>> \o Digits(ScreenRows),
                 Digits(2) \o <<Semicolon>> \o Digits(2),
                 Digits(ScreenRows) \o <<Semicolon>> \o Digits(1)}

\* the sequences the application sends: regions, cursor positions on every
\* row and column, a cursor sent past the grid, a letter, the two grids, and
\* the operations
RegionInputs ==
    {Csi(p, 114) : p \in RegionParams}
    \cup {Csi(Digits(r) \o <<Semicolon>> \o Digits(c), 72) :
              r \in 1..ScreenRows, c \in 1..ScreenCols}
    \cup {Csi(Digits(MaxInt), 66), <<LetterA>>,
          Csi(<<Question>> \o Digits(1049), 104), Csi(<<Question>> \o Digits(1049), 108)}
    \cup LineOps \cup InsertCharOps \cup DeleteCharOps

RegionInit ==
    /\ NoDaemon
    /\ screen = ScreenWrite(NewScreen(ScreenCols, ScreenRows), PaintRows(0))
    /\ writes = 0
    /\ buffer = NewBuffer(1)
    /\ stream = <<>>
    /\ resized = FALSE
    /\ lastOp = [op |-> "New", arg |-> 0, cap |-> 0, data |-> <<>>]

\* one Screen.Write call with one sequence; lastOp keeps the bytes written
DoRegionWrite ==
    \E data \in RegionInputs :
        /\ writes < MaxRegionWrites
        /\ ~screen.panicked
        /\ screen' = ScreenWrite(screen, data)
        /\ writes' = writes + 1
        /\ lastOp' = [op |-> "Write", arg |-> Len(data), cap |-> 0, data |-> data]
        /\ UNCHANGED <<bufVars, dmnVars, ipcVars, lifeVars>>

SpecRegion == RegionInit /\ [][DoRegionWrite]_vars

\* the grid the screen does not show
Hidden(s) == IF s.inAlt THEN s.main ELSE s.alt

\* C29: linefeed, reverse index (ESC M), scroll up and down (CSI S, CSI T)
\* and insert and delete lines (CSI L, CSI M), with any count, change no row
\* outside the scroll region [scrollTop, scrollBottom]; insert and delete
\* lines also leave every row above the cursor row as it was, and leave
\* scrollTop and scrollBottom at their values before the operation.
C29_RegionFrame ==
    [][(lastOp'.op = "Write" /\ lastOp'.data \in LineOps) =>
          LET g  == st(screen)
              g2 == st(screen')
          IN  /\ ~screen'.panicked
              /\ screen'.inAlt = screen.inAlt
              /\ Hidden(screen') = Hidden(screen)
              /\ \A r \in 0..(ScreenRows - 1) :
                    (r < g.scrollTop \/ r > g.scrollBottom)
                        => g2.grid[r + 1] = g.grid[r + 1]
              /\ lastOp'.data \in InsertDeleteLineOps =>
                    /\ \A r \in 0..(ScreenRows - 1) :
                          r < g.row => g2.grid[r + 1] = g.grid[r + 1]
                    /\ g2.scrollTop = g.scrollTop
                    /\ g2.scrollBottom = g.scrollBottom]_vars

\* CSI 2 L at the top of the region [0, ScreenRows - 2] has pushed two blank
\* rows in, and the last row of the screen, below the region, is as painted
C29_Witness ==
    /\ lastOp.op = "Write"
    /\ lastOp.data = Csi(Digits(2), 76)
    /\ ~screen.inAlt
    /\ screen.main.scrollTop = 0
    /\ screen.main.scrollBottom = ScreenRows - 2
    /\ screen.main.row = 0
    /\ screen.main.grid[1] = makeRow(ScreenCols)
    /\ screen.main.grid[ScreenRows] = PaintedRow(ScreenRows - 1)

\* CSI M below the top of the region [1, ScreenRows - 1]: the cursor row is
\* gone, the row above it inside the region and the row outside are as painted
C29_WitnessAbove ==
    /\ lastOp.op = "Write"
    /\ lastOp.data = Csi(<<>>, 77)
    /\ ~screen.inAlt
    /\ screen.main.scrollTop = 1
    /\ screen.main.scrollBottom = ScreenRows - 1
    /\ screen.main.row = 2
    /\ screen.main.grid[1] = PaintedRow(0)
    /\ screen.main.grid[2] = PaintedRow(1)
    /\ screen.main.grid[ScreenRows] = makeRow(ScreenCols)

\* a linefeed on the bottom row of the region [0, ScreenRows - 2] has
\* scrolled the region and left the last row of the screen as painted
C29_WitnessLinefeed ==
    /\ lastOp.op = "Write"
    /\ lastOp.data = <<LF>>
    /\ ~screen.inAlt
    /\ screen.main.scrollBottom = ScreenRows - 2
    /\ screen.main.row = ScreenRows - 2
    /\ screen.main.grid[ScreenRows - 1] = makeRow(ScreenCols)
    /\ screen.main.grid[ScreenRows] = PaintedRow(ScreenRows - 1)

\* the count an insert or delete characters sequence carries
CountOf(data) == parseOne(SubSeq(data, 3, Len(data) - 1), 1)

\* C30: insert characters (CSI N @) and delete characters (CSI N P), for
\* every N >= 1 and every cursor column, change only cells of the cursor row
\* at or right of the cursor column: the cells left of the cursor on that row
\* and all other rows are unchanged, the cursor does not move, and the
\* vacated cells are spaces.
C30_CharsFrame ==
    [][(lastOp'.op = "Write" /\ lastOp'.data \in (InsertCharOps \cup DeleteCharOps)) =>
          LET g  == st(screen)
              g2 == st(screen')
              n  == CountOf(lastOp'.data)
          IN  /\ screen'.inAlt = screen.inAlt
              /\ Hidden(screen') = Hidden(screen)
              /\ g2.row = g.row
              /\ g2.col = g.col
              /\ \A r \in 0..(ScreenRows - 1), c \in 0..(ScreenCols - 1) :
                    (r # g.row \/ c < g.col)
                        => g2.grid[r + 1][c + 1] = g.grid[r + 1][c + 1]
              /\ ~screen'.panicked =>
                    \A c \in 0..(ScreenCols - 1) :
                        IF lastOp'.data \in InsertCharOps
                        THEN (c >= g.col /\ c - g.col < n)
                                 => g2.grid[g.row + 1][c + 1] = SP
                        ELSE (c >= g.col /\ ScreenCols - c <= n)
                                 => g2.grid[g.row + 1][c + 1] = SP]_vars

\* the same with the count of a delete no larger than the number of cells
\* from the cursor to the end of the row
C30_CharsFrameWithinRow ==
    [][(/\ lastOp'.op = "Write"
        /\ lastOp'.data \in (InsertCharOps \cup DeleteCharOps)
        /\ lastOp'.data \in DeleteCharOps
               => CountOf(lastOp'.data) <= ScreenCols - st(screen).col) =>
          LET g  == st(screen)
              g2 == st(screen')
          IN  /\ g2.row = g.row
              /\ g2.col = g.col
              /\ \A r \in 0..(ScreenRows - 1), c \in 0..(ScreenCols - 1) :
                    (r # g.row \/ c < g.col)
                        => g2.grid[r + 1][c + 1] = g.grid[r + 1][c + 1]]_vars

\* CSI N P with N = ScreenRows = ScreenCols sent with the cursor in the
\* second column of the first row: the first cell of the row, left of the
\* cursor, is blank
C30_DeletedLeftOfCursor ==
    /\ writes = 2
    /\ lastOp.op = "Write"
    /\ lastOp.data \in DeleteCharOps
    /\ ~screen.inAlt
    /\ screen.main.row = 0
    /\ screen.main.col = 1
    /\ screen.main.grid[1] = makeRow(ScreenCols)
    /\ screen.main.grid[2] = PaintedRow(1)

-----------------------------------------------------------------------------
(* DECSTBM *)

\* CSI top ; bottom r, as the application of the scrolling scenario sends it
RegionOps == {Csi(p, 114) : p \in RegionParams}

\* the parameter bytes of a CSI sequence
ParamsOf(data) == SubSeq(data, 3, Len(data) - 1)

\* C31: after a DECSTBM sequence (CSI top ; bottom r) the scroll region is
\* (top, bottom), 0-based (top - 1, bottom - 1), and the cursor is at the
\* home position, row 0 column 0.
C31_RegionAndHome ==
    (lastOp.op = "Write" /\ lastOp.data \in RegionOps) =>
        LET g  == st(screen)
            tb == parseTwo(ParamsOf(lastOp.data), 1, ScreenRows)
        IN  /\ g.scrollTop = tb[1] - 1
            /\ g.scrollBottom = tb[2] - 1
            /\ g.row = 0
            /\ g.col = 0

\* the region is set as asked and the cursor is in column 0 of the first row
\* of the region
C31_RegionAndRegionTop ==
    (lastOp.op = "Write" /\ lastOp.data \in RegionOps) =>
        LET g  == st(screen)
            tb == parseTwo(ParamsOf(lastOp.data), 1, ScreenRows)
        IN  /\ g.scrollTop = tb[1] - 1
            /\ g.scrollBottom = tb[2] - 1
            /\ g.row = g.scrollTop
            /\ g.col = 0

\* CSI 2 ; ScreenRows r has left the cursor on row 1
C31_HomedToRegionTop ==
    /\ lastOp.op = "Write"
    /\ lastOp.data = Csi(Digits(2) \o <<Semicolon>> \o Digits(ScreenRows), 114)
    /\ st(screen).scrollTop = 1
    /\ st(screen).row = 1
    /\ st(screen).col = 0

-----------------------------------------------------------------------------
(* Sequences the screen ignores: OSC strings and CSI m, n, c, q.           *)

\* number of Screen.Write calls in one behaviour of the ignored-sequence scenario
MaxInertWrites == 3

\* ESC ] body terminated by BEL or by ESC \; the bodies hold a title, a
\* parameter string, bytes a CSI would take, a byte above 127, and nothing
OscSeqs ==
    {<<ESC, 93>> \o body \o term :
        body \in {<<>>, <<Digit0, Semicolon, LetterA>>, <<91, Digit0 + 2, 74>>,
                  <<LetterA, 195, LetterB>>, <<LF, CR>>},
        term \in {<<BEL>>, <<ESC, 92>>}}

\* CSI params final with final byte m, n, c, q
InertCsiSeqs ==
    {Csi(p, f) : p \in {<<>>, Digits(2), Digits(1) \o <<Semicolon>> \o Digits(31),
                        <<Question>> \o Digits(6), Digits(MaxInt)},
                 f \in {109, 110, 99, 113}}

InertSeqs == OscSeqs \cup InertCsiSeqs

\* the printable bytes that follow: H i
Hi == <<72, 105>>

\* what the application sends besides: cursor positions, a scroll region, a
\* letter, a line feed, half a UTF-8 character, an unfinished escape, and the
\* switch to and from the alternate grid
InertInputs ==
    InertSeqs \cup {q \o Hi : q \in InertSeqs}
    \cup {Csi(Digits(2) \o <<Semicolon>> \o Digits(2), 72),
          Csi(Digits(ScreenRows) \o <<Semicolon>> \o Digits(ScreenCols), 72),
          Csi(Digits(2) \o <<Semicolon>> \o Digits(ScreenRows), 114),
          <<LetterA>>, <<LF>>, <<195>>, <<ESC>>,
          Csi(<<Question>> \o Digits(1049), 104), Csi(<<Question>> \o Digits(1049), 108)}

\* one Screen.Write call with one of these; lastOp keeps the bytes written
DoInertWrite ==
    \E data \in InertInputs :
        /\ writes < MaxInertWrites
        /\ ~screen.panicked
        /\ screen' = ScreenWrite(screen, data)
        /\ writes' = writes + 1
        /\ lastOp' = [op |-> "Write", arg |-> Len(data), cap |-> 0, data |-> data]
        /\ UNCHANGED <<bufVars, dmnVars, ipcVars, lifeVars>>

SpecInert == RegionInit /\ [][DoInertWrite]_vars

\* the two printable bytes placed one after the other, as Write places them
PutHi(s) == putRune(putRune(s, Hi[1]), Hi[2])

\* C32: a complete OSC sequence (ESC ] ... BEL or ESC ] ... ESC \) and a CSI
\* sequence with final byte m, n, c or q, met in the Normal state, leave every
\* cell, the cursor, the scroll region and the active-grid flag unchanged and
\* return the parser to Normal, so that printable bytes that follow are
\* placed starting at the unchanged cursor position. Bytes of an earlier
\* Write that the screen still holds are no part of the sequence: the
\* property is stated for a screen that holds nothing but bytes of an
\* unfinished character.
C32_IgnoredSequences ==
    [][(/\ lastOp'.op = "Write"
        /\ screen.pState = "psNorm"
        /\ \A k \in 1..Len(screen.uBuf) : screen.uBuf[k] >= 128
        /\ \E q \in InertSeqs : lastOp'.data \in {q, q \o Hi}) =>
          LET after == IF lastOp'.data \in InertSeqs THEN screen ELSE PutHi(screen)
          IN  /\ screen'.main = after.main
              /\ screen'.alt = after.alt
              /\ screen'.inAlt = screen.inAlt
              /\ screen'.pState = "psNorm"
              /\ screen'.pBuf = <<>>
              /\ screen'.panicked = after.panicked]_vars

\* ESC ] 0 ; a BEL H i written with the cursor on row 1, column 1 of the
\* painted screen: H is in that cell, the cell before it is as painted
C32_Witness ==
    /\ writes = 2
    /\ lastOp.op = "Write"
    /\ lastOp.data = <<ESC, 93, Digit0, Semicolon, LetterA, BEL>> \o Hi
    /\ ~screen.inAlt
    /\ screen.pState = "psNorm"
    /\ screen.main.row = 1
    /\ screen.main.grid[2][1] = PaintedRow(1)[1]
    /\ screen.main.grid[2][2] = Hi[1]
    /\ screen.main.grid[2][3] = Hi[2]
    /\ screen.main.grid[1] = PaintedRow(0)

\* CSI n q with the largest int, then H i, written with the cursor on row 1,
\* column 1 of the painted screen
C32_WitnessCsi ==
    /\ writes = 2
    /\ lastOp.op = "Write"
    /\ lastOp.data = Csi(Digits(MaxInt), 113) \o Hi
    /\ ~screen.inAlt
    /\ screen.pState = "psNorm"
    /\ screen.main.row = 1
    /\ screen.main.grid[2][1] = PaintedRow(1)[1]
    /\ screen.main.grid[2][2] = Hi[1]
    /\ screen.main.grid[2][3] = Hi[2]

-----------------------------------------------------------------------------
(* ConPTY.Close against ConPTY.watchProcess: the watcher goroutine New      *)
(* started, the child, and up to two callers of Close, step by step.        *)

\* number of goroutines that call Close in one behaviour
MaxClosers == 2

\* the handles a ConPTY holds when New has returned it
RunningHandles ==
    CloseHandle(Allocate(NoHandles, HandleNames),
                {"ptyInRead", "ptyOutWrite", "thread", "attrList"})

\* a handle that was made and not yet closed
HandleOpen(hs, h) == hs[h].made /\ hs[h].closes = 0

\* New has returned: the child runs and will exit by itself with some code,
\* watchProcess is about to wait, nobody has called Close
CloseInit ==
    /\ NoIpc
    /\ NoSession
    /\ buffer = NewBuffer(1)
    /\ stream = <<>>
    /\ resized = FALSE
    /\ lastOp = [op |-> "New", arg |-> 0, cap |-> 0]
    /\ screen = NewScreen(ScreenCols, ScreenRows)
    /\ writes = 0
    /\ pipePaneFile = NilFile
    /\ files = <<>>
    /\ openFiles = 0
    /\ pipePaneMu = "free"
    /\ handlers = <<>>
    /\ response = NoResponse
    /\ pumpPC = "done"
    /\ pumpData = <<>>
    /\ mu = [buffer |-> FreeMutex, screen |-> FreeMutex]
    /\ calls = [watcher |-> [pc |-> "wait", code |-> 0],
                closers |-> [k \in 1..MaxClosers |-> "idle"]]
    /\ settled = <<>>
    /\ \E own \in {0, 3} :
           construction = [pc |-> "returned", handles |-> RunningHandles, err |-> "",
                           child |-> "running", ownCode |-> own, childCode |-> 0,
                           terminated |-> FALSE, killed |-> FALSE,
                           once |-> "fresh", exited |-> FALSE, exitCode |-> 0]
    /\ client = <<>>

\* a step of the ConPTY's goroutines: the object, the goroutines, and the
\* uses the watcher made of the process handle
ConPTYStep(op, c, g, uses) ==
    /\ construction' = c
    /\ calls' = g
    /\ trail' = uses
    /\ lastOp' = [op |-> op, arg |-> 0, cap |-> 0]
    /\ UNCHANGED <<bufVars, scrVars, pipePaneFile, files, openFiles, pipePaneMu, handlers,
                   response, pumpPC, pumpData, ipcVars, mu, settled, client,
                   terminal, done, listener, watchPC, mainPC, controlFile, conns>>

\* the child process ends: by itself with its own code, or with the code
\* TerminateProcess gave
ChildEnds ==
    /\ construction.child = "running"
    /\ ConPTYStep("exit",
                  [construction EXCEPT !.child = "exited",
                       !.childCode = IF construction.terminated THEN 1
                                     ELSE construction.ownCode],
                  calls, trail)

\* watchProcess: WaitForSingleObject(c.process, INFINITE) returns, because
\* the process has ended or because the handle is no handle any more
WatcherWait ==
    /\ calls.watcher.pc = "wait"
    /\ \E open \in {HandleOpen(construction.handles, "process")} :
        /\ open => construction.child = "exited"
        /\ ConPTYStep("WaitForSingleObject", construction,
                      [calls EXCEPT !.watcher.pc = "query"],
                      Append(trail, [call |-> "WaitForSingleObject", open |-> open]))

\* watchProcess: GetExitCodeProcess(c.process, &code); on a closed handle the
\* call fails and code keeps its zero value
WatcherQuery ==
    /\ calls.watcher.pc = "query"
    /\ \E open \in {HandleOpen(construction.handles, "process")} :
        ConPTYStep("GetExitCodeProcess", construction,
                   [calls EXCEPT !.watcher.pc = "signal",
                                 !.watcher.code = IF open THEN construction.childCode
                                                  ELSE 0],
                   Append(trail, [call |-> "GetExitCodeProcess", open |-> open]))

\* watchProcess: c.exitCode = code; close(c.exited)
WatcherSignal ==
    /\ calls.watcher.pc = "signal"
    /\ ConPTYStep("close(exited)",
                  [construction EXCEPT !.exitCode = calls.watcher.code, !.exited = TRUE],
                  [calls EXCEPT !.watcher.pc = "done"], trail)

\* closer k moves to position pc, the object becoming c
CloserStep(op, k, pc, c) ==
    ConPTYStep(op, c, [calls EXCEPT !.closers[k] = pc], trail)

\* Close: closeOnce.Do; the first caller runs the function, c.killed = true
CloseEnter(k) ==
    /\ calls.closers[k] = "idle"
    /\ construction.once = "fresh"
    /\ CloserStep("Close", k, "close console",
                  [construction EXCEPT !.once = "running", !.killed = TRUE])

\* Close: closeOnce.Do in a later caller returns once the function has run
CloseAgain(k) ==
    /\ calls.closers[k] = "idle"
    /\ construction.once = "done"
    /\ CloserStep("Close", k, "returned", construction)

\* Close step 1: ClosePseudoConsole(c.hPC)
CloseConsole(k) ==
    /\ calls.closers[k] = "close console"
    /\ CloserStep("ClosePseudoConsole", k, "terminate",
                  [construction EXCEPT !.handles = CloseHandle(@, {"hPC"})])

\* Close step 2: TerminateProcess(c.process, 1) asks for the end of the child
\* and returns
CloseTerminate(k) ==
    /\ calls.closers[k] = "terminate"
    /\ CloserStep("TerminateProcess", k, "select",
                  [construction EXCEPT !.terminated = (construction.child = "running")])

\* Close step 3: select { case <-c.exited: default: } takes whichever case is
\* ready and goes on
CloseSelect(k) ==
    /\ calls.closers[k] = "select"
    /\ CloserStep("select", k, "close pipes", construction)

\* Close step 4: CloseHandle(c.hPipeIn); CloseHandle(c.hPipeOut)
ClosePipes(k) ==
    /\ calls.closers[k] = "close pipes"
    /\ CloserStep("CloseHandle", k, "close process",
                  [construction EXCEPT
                       !.handles = CloseHandle(@, {"ptyInWrite", "ptyOutRead"})])

\* Close step 5: CloseHandle(c.process); the once is done and Close returns
CloseProcess(k) ==
    /\ calls.closers[k] = "close process"
    /\ CloserStep("CloseHandle", k, "returned",
                  [construction EXCEPT !.handles = CloseHandle(@, {"process"}),
                                       !.once = "done"])

CloseNext ==
    \/ ChildEnds
    \/ WatcherWait
    \/ WatcherQuery
    \/ WatcherSignal
    \/ \E k \in 1..MaxClosers :
        \/ CloseEnter(k)
        \/ CloseAgain(k)
        \/ CloseConsole(k)
        \/ CloseTerminate(k)
        \/ CloseSelect(k)
        \/ ClosePipes(k)
        \/ CloseProcess(k)

SpecClose == CloseInit /\ [][CloseNext]_vars

\* C33: ConPTY.Close releases the child process handle only after the exit
\* watcher has finished using it, that is after the exited signal has fired:
\* the watcher never waits on, or queries the exit code of, a handle that
\* Close has closed.
C33_HandleOutlivesWatcher ==
    /\ construction.handles["process"].closes > 0 => construction.exited
    /\ \A i \in 1..Len(trail) : trail[i].open

\* what Close does keep: every handle of the ConPTY is closed at most once,
\* the process handle after the console and the pipes, and the exit code
\* reported once exited has fired is the child's or 0
C33_ClosedOnceProcessLast ==
    /\ \A h \in {"hPC", "ptyInWrite", "ptyOutRead", "process"} :
          construction.handles[h].closes <= 1
    /\ construction.handles["process"].closes > 0 =>
          \A h \in {"hPC", "ptyInWrite", "ptyOutRead"} :
              construction.handles[h].closes = 1
    /\ construction.exited => construction.exitCode \in {0, construction.childCode}

\* Close has returned with the process handle closed while the watcher had
\* not yet come back from its wait, and the watcher then queried the closed
\* handle: the exit code it reports is 0 for a child that ended with 1
C33_QueriedClosedHandle ==
    /\ construction.exited
    /\ construction.childCode = 1
    /\ construction.exitCode = 0
    /\ Len(trail) = 2
    /\ ~trail[1].open
    /\ ~trail[2].open

-----------------------------------------------------------------------------
(* vt.Strip as a function of its argument *)

\* length of the strings handed to Strip
MaxStripLen == 5

\* ESC [ ] a ; BEL \ : what escape sequences are made of
StripBytes == {ESC, 91, 93, LetterA, Semicolon, BEL, 92}

StripInit ==
    /\ NoDaemon
    /\ buffer = NewBuffer(1)
    /\ resized = FALSE
    /\ screen = NewScreen(ScreenCols, ScreenRows)
    /\ writes = 0
    /\ stream \in SeqsOf(StripBytes, 0, MaxStripLen)
    /\ lastOp = [op |-> "New", arg |-> 0, cap |-> 0, data |-> <<>>]

\* stream becomes vt.Strip(stream); lastOp keeps the argument
DoStrip ==
    /\ lastOp.op = "New"
    /\ stream' = Strip(stream)
    /\ lastOp' = [op |-> "Strip", arg |-> Len(stream), cap |-> 0, data |-> stream]
    /\ UNCHANGED <<buffer, resized, scrVars, dmnVars, ipcVars, lifeVars>>

SpecStrip == StripInit /\ [][DoStrip]_vars

\* escapePattern matches somewhere in s
HasEscape(s) == \E i \in 1..Len(s) : s[i] = ESC /\ escapePattern(s, i) > 0

\* C34: for every input string s, vt.Strip(s) contains no CSI sequence, no
\* terminated OSC sequence and no two-byte ESC sequence, so that
\* Strip(Strip(s)) = Strip(s); and a string with no ESC byte is returned
\* unchanged.
C34_StripIsClean ==
    lastOp.op = "Strip" =>
        /\ ~HasEscape(stream)
        /\ Strip(stream) = stream
        /\ (\A i \in 1..Len(lastOp.data) : lastOp.data[i] # ESC) => stream = lastOp.data

\* the part about strings without ESC, and what Strip removes: the result
\* is the argument less the bytes of the matches, in order
C34_StripKeepsPlainText ==
    lastOp.op = "Strip" =>
        /\ (\A i \in 1..Len(lastOp.data) : lastOp.data[i] # ESC) => stream = lastOp.data
        /\ ~HasEscape(lastOp.data) => stream = lastOp.data
        /\ Len(stream) <= Len(lastOp.data)

\* Strip(ESC [ ESC \ a) = ESC [ a: removing the inner sequence leaves one
C34_StripLeavesSequence ==
    /\ lastOp.op = "Strip"
    /\ lastOp.data = <<ESC, 91, ESC, 92, LetterA>>
    /\ stream = <<ESC, 91, LetterA>>
    /\ Strip(stream) = <<>>

-----------------------------------------------------------------------------
(* pipe_pane requests that fail *)

\* C35: a pipe_pane request answered with an error (a command not of the
\* shape cat >> PATH, or a target file that cannot be opened) leaves the tee
\* as it was before the request: a tee file installed before stays open and
\* installed.
C35_FailedPipePaneKeepsTee ==
    [][(lastOp'.op = "pipe_pane" /\ ~response'.ok) =>
          /\ pipePaneFile' = pipePaneFile
          /\ openFiles' = openFiles
          /\ files' = files]_vars

\* a failed pipe_pane request leaves no tee installed and no tee file open,
\* and creates no file
C35_FailedPipePaneRemovesTee ==
    [][(lastOp'.op = "pipe_pane" /\ ~response'.ok) =>
          /\ pipePaneFile' = NilFile
          /\ openFiles' = 0
          /\ files' = files]_vars

\* a request was answered with an error, the file of an earlier pipe_pane
\* holds the output pumped while it was installed, and it is installed no more
C35_TeeLost ==
    /\ lastOp.op = "pipe_pane"
    /\ ~response.ok
    /\ pipePaneFile = NilFile
    /\ openFiles = 0
    /\ \E path \in DOMAIN files : files[path] # <<>>

-----------------------------------------------------------------------------
(* Vertical cursor movement with a scroll region set *)

\* CSI n A, CSI n F
CursorUpOps == {Csi(p, f) : p \in {<<>>, Digits(2), Digits(ScreenRows + 1)}, f \in {65, 70}}

\* CSI n B, CSI n E
CursorDownOps == {Csi(p, f) : p \in {<<>>, Digits(2), Digits(ScreenRows + 1)}, f \in {66, 69}}

\* scroll regions with top <= bottom, the cursor sent to any row, the two
\* grids, a line feed and a reverse index, and the four movements
CursorInputs ==
    {Csi(p, 114) : p \in RegionParams \ {Digits(ScreenRows) \o <<Semicolon>> \o Digits(1)}}
    \cup {Csi(Digits(r) \o <<Semicolon>> \o Digits(2), 72) : r \in 1..ScreenRows}
    \cup {Csi(<<Question>> \o Digits(1049), 104), Csi(<<Question>> \o Digits(1049), 108),
          <<LF>>, <<ESC, 77>>}
    \cup CursorUpOps \cup CursorDownOps

\* one Screen.Write call with one of these; lastOp keeps the bytes written
DoCursorWrite ==
    \E data \in CursorInputs :
        /\ writes < MaxRegionWrites
        /\ ~screen.panicked
        /\ screen' = ScreenWrite(screen, data)
        /\ writes' = writes + 1
        /\ lastOp' = [op |-> "Write", arg |-> Len(data), cap |-> 0, data |-> data]
        /\ UNCHANGED <<bufVars, dmnVars, ipcVars, lifeVars>>

SpecCursor == RegionInit /\ [][DoCursorWrite]_vars

\* C36: from every reachable screen state, cursor up (CSI N A) and cursor
\* previous line (CSI N F) never increase the cursor row, and cursor down
\* (CSI N B) and cursor next line (CSI N E) never decrease it, also when the
\* cursor is outside the scroll region.
C36_VerticalMoves ==
    [][/\ (lastOp'.op = "Write" /\ lastOp'.data \in CursorUpOps)
              => st(screen').row <= st(screen).row
       /\ (lastOp'.op = "Write" /\ lastOp'.data \in CursorDownOps)
              => st(screen').row >= st(screen).row]_vars

\* the same for a cursor that is on a row of the scroll region
C36_VerticalMovesInRegion ==
    [][(/\ lastOp'.op = "Write"
        /\ st(screen).row >= st(screen).scrollTop
        /\ st(screen).row <= st(screen).scrollBottom) =>
          /\ lastOp'.data \in CursorUpOps
                 => /\ st(screen').row <= st(screen).row
                    /\ st(screen').row >= st(screen).scrollTop
          /\ lastOp'.data \in CursorDownOps
                 => /\ st(screen').row >= st(screen).row
                    /\ st(screen').row <= st(screen).scrollBottom]_vars

-----------------------------------------------------------------------------
(* Writes that end in an index out of range *)

\* C37: Screen.Write completes without an out-of-range grid access for every
\* byte sequence, CSI sequences with a numeric parameter as large as the
\* machine integer allows included, integer arithmetic wrapping at the word
\* size.
C37_WriteCompletes == ~screen.panicked

\* a Write of the scrolling scenario ends in an index out of range only when
\* the sum of the cursor column and the count of an insert characters
\* sequence wraps, or when an earlier sequence has sent the cursor out of
\* the grid (a sum of the cursor row and a count that wrapped)
C37_PanicsOnlyAfterWrap ==
    [][screen'.panicked =>
          \/ /\ lastOp'.data \in InsertCharOps
             /\ st(screen).col + CountOf(lastOp'.data) > MaxInt
          \/ st(screen).row < 0
          \/ st(screen).row >= ScreenRows]_vars

\* CSI n @ with the largest int, written with the cursor in column 1 of the
\* first row, has ended the Write in an index out of range
C37_InsertCharsPanics ==
    /\ writes = 2
    /\ screen.panicked
    /\ lastOp.op = "Write"
    /\ lastOp.data = Csi(Digits(MaxInt), 64)
    /\ st(screen).row = 0
    /\ st(screen).col = 1

-----------------------------------------------------------------------------
(* One byte stream written in pieces *)

\* length of the byte stream
MaxSplitLen == 5

\* H, the two bytes of a two-byte character, ESC and [: text, a character
\* that can be cut in two, CSI H, and what is left of them
SplitBytes == {72, 195, 169, ESC, 91}

SplitInit ==
    /\ NoDaemon
    /\ screen = NewScreen(ScreenCols, ScreenRows)
    /\ writes = 0
    /\ buffer = NewBuffer(1)
    /\ stream = <<>>
    /\ resized = FALSE
    /\ lastOp = [op |-> "New", arg |-> 0, cap |-> 0, data |-> <<>>]

\* one Screen.Write call with the next piece, of any length; stream is all
\* that has been written
DoSplitWrite ==
    \E n \in 1..(MaxSplitLen - Len(stream)) :
        \E data \in [1..n -> SplitBytes] :
            /\ screen' = ScreenWrite(screen, data)
            /\ stream' = stream \o data
            /\ writes' = writes + 1
            /\ UNCHANGED <<buffer, resized, lastOp, dmnVars, ipcVars, lifeVars>>

SpecSplit == SplitInit /\ [][DoSplitWrite]_vars

\* C38: for every byte stream and every way of cutting it into consecutive
\* Screen.Write calls, cuts inside a multi-byte character and inside an
\* escape sequence included, the grids, cursors, scroll regions, parser
\* state and held bytes are those after one Write of the whole stream.
C38_SplitsAgree ==
    screen = ScreenWrite(NewScreen(ScreenCols, ScreenRows), stream)

\* a two-byte character written one byte per Write is in the first cell
C38_Witness ==
    /\ writes = 2
    /\ stream = <<195, 169>>
    /\ screen.main.grid[1][1] = 233
    /\ screen.main.col = 1
    /\ screen.uBuf = <<>>

\* H ESC [ H written one byte per Write has printed H and brought the
\* cursor home
C38_WitnessEscape ==
    /\ writes = 4
    /\ stream = <<72, ESC, 91, 72>>
    /\ screen.main.grid[1] = <<72>> \o makeRow(ScreenCols - 1)
    /\ screen.main.col = 0
    /\ screen.pState = "psNorm"

\* a stray lead byte and the text after it are held until the stream is
\* four bytes long from the lead byte on
C38_WitnessHeldText ==
    /\ writes = 2
    /\ stream = <<195, 72, 72>>
    /\ screen.uBuf = <<195, 72, 72>>
    /\ screen.main.grid[1][1] = SP

-----------------------------------------------------------------------------
(* send_keys and send_key handlers running at the same time: each           *)
(* handleConnection goroutine writes to the PTY on its own, one             *)
(* terminal.Write call per step.                                            *)

\* number of send requests handled in one behaviour
MaxSenders == 2

\* the requests: send_keys with no text, one byte and two bytes, with and
\* without send_enter, and send_key with Enter, Up and an unknown name
ConcurrentSends ==
    {[action |-> "send_keys", text |-> txt, key |-> "", send_enter |-> e] :
         txt \in {<<>>, <<LetterA>>, <<LetterA, LetterB>>}, e \in BOOLEAN}
    \cup {[action |-> "send_key", text |-> <<>>, key |-> k, send_enter |-> FALSE] :
         k \in {"Enter", "Up", "enter"}}

\* a step of handler h, or of nobody: the terminal after it, and who wrote
\* the bytes it added
SendStep(op, t, h) ==
    /\ terminal' = t
    /\ trail' = trail \o [k \in 1..(Len(t.ptyIn) - Len(terminal.ptyIn)) |-> h]
    /\ lastOp' = [op |-> op, arg |-> h, cap |-> 0]
    /\ UNCHANGED <<bufVars, scrVars, pipePaneFile, files, openFiles, pipePaneMu, concVars,
                   response, pumpPC, pumpData, ipcVars, done, listener, watchPC, mainPC,
                   controlFile, conns>>

\* acceptConnections: go d.handleConnection(conn) for a connection that
\* brings a send request
SendStart ==
    \E req \in ConcurrentSends :
        /\ Len(handlers) < MaxSenders
        /\ handlers' = Append(handlers, [pc |-> req.action, req |-> req, at |-> -1,
                                         enterAt |-> -1, resp |-> NoResponse])
        /\ SendStep("accept", terminal, Len(handlers) + 1)

\* handleSendKeys: if req.Text != "", d.terminal.Write([]byte(req.Text))
SendText(h) ==
    /\ handlers[h].pc = "send_keys"
    /\ \E w \in {IF handlers[h].req.text # <<>> THEN Write(terminal, handlers[h].req.text)
                 ELSE [t |-> terminal, err |-> ""]} :
        /\ handlers' = [handlers EXCEPT
                           ![h].pc = IF w.err # "" THEN "returned" ELSE "enter",
                           ![h].at = IF handlers[h].req.text # <<>> /\ w.err = ""
                                     THEN Len(terminal.ptyIn) ELSE -1,
                           ![h].resp = IF w.err # "" THEN RespError(w.err) ELSE @]
        /\ SendStep("send_keys text", w.t, h)

\* handleSendKeys writing the text once more where the carriage return goes
SendEnter_TextAgain(h) ==
    /\ handlers[h].pc = "enter"
    /\ \E w \in {IF handlers[h].req.send_enter THEN Write(terminal, handlers[h].req.text)
                 ELSE [t |-> terminal, err |-> ""]} :
        /\ handlers' = [handlers EXCEPT
                           ![h].pc = "returned",
                           ![h].enterAt = IF handlers[h].req.send_enter /\ w.err = ""
                                          THEN Len(terminal.ptyIn) ELSE -1,
                           ![h].resp = IF w.err # "" THEN RespError(w.err) ELSE RespOK]
        /\ SendStep("send_keys enter", w.t, h)

\* handleSendKeys: if req.SendEnter, d.terminal.Write([]byte("\r")); return
SendEnter(h) ==
    /\ handlers[h].pc = "enter"
    /\ \E w \in {IF handlers[h].req.send_enter THEN Write(terminal, <<CR>>)
                 ELSE [t |-> terminal, err |-> ""]} :
        /\ handlers' = [handlers EXCEPT
                           ![h].pc = "returned",
                           ![h].enterAt = IF handlers[h].req.send_enter /\ w.err = ""
                                          THEN Len(terminal.ptyIn) ELSE -1,
                           ![h].resp = IF w.err # "" THEN RespError(w.err) ELSE RespOK]
        /\ SendStep("send_keys enter", w.t, h)

\* handleSendKey: one Write of the bytes of the key
SendNamedKey(h) ==
    /\ handlers[h].pc = "send_key"
    /\ \E r \in {handleSendKey(terminal, handlers[h].req)} :
        /\ handlers' = [handlers EXCEPT ![h].pc = "returned", ![h].resp = r.resp]
        /\ SendStep("send_key", r.t, h)

\* a kill_session handled meanwhile: d.terminal.Close()
SendKill ==
    /\ ~Closed(terminal)
    /\ handlers' = handlers
    /\ SendStep("kill_session", Close(terminal).t, 0)

SendNext ==
    \/ SendStart
    \/ SendKill
    \/ \E h \in 1..Len(handlers) :
        \/ SendText(h)
        \/ SendEnter(h)
        \/ SendNamedKey(h)

SpecSend == DaemonInit /\ [][SendNext]_vars

\* the send_keys handlers that have written a non-empty text and the
\* carriage return
WroteBoth(h) ==
    /\ handlers[h].req.action = "send_keys"
    /\ handlers[h].at >= 0
    /\ handlers[h].enterAt >= 0

\* C39 as stated: when a send_keys request carries both a non-empty text and
\* send_enter, its text bytes and its trailing \r are adjacent in the PTY
\* input stream: no bytes written by another request handled at the same
\* time are between them.
C39_TextAndEnterAdjacent ==
    \A h \in 1..Len(handlers) :
        WroteBoth(h) => handlers[h].enterAt = handlers[h].at + Len(handlers[h].req.text)

\* C39: the text bytes of such a request are together in the PTY input
\* stream and its \r comes after them; what is between the text and the \r
\* was written by other requests, each of whose writes is together as well.
C39_TextThenEnter ==
    /\ Len(trail) = Len(terminal.ptyIn)
    /\ \A h \in 1..Len(handlers) :
        LET c   == handlers[h]
            end == c.at + Len(c.req.text)
        IN  /\ (c.req.action = "send_keys" /\ c.at >= 0) =>
                  /\ SubSeq(terminal.ptyIn, c.at + 1, end) = c.req.text
                  /\ \A k \in (c.at + 1)..end : trail[k] = h
            /\ WroteBoth(h) =>
                  /\ c.enterAt >= end
                  /\ terminal.ptyIn[c.enterAt + 1] = CR
                  /\ trail[c.enterAt + 1] = h
                  /\ \A k \in (end + 1)..c.enterAt : trail[k] # h
            /\ (c.req.action = "send_key" /\ c.pc = "returned" /\ c.resp.ok) =>
                  \E k \in 0..Len(trail) :
                      /\ SubSeq(terminal.ptyIn, k + 1, k + Len(keyMap[c.req.key]))
                             = keyMap[c.req.key]
                      /\ \A j \in (k + 1)..(k + Len(keyMap[c.req.key])) : trail[j] = h

\* the first request is send_keys "ab" with send_enter, the second send_key
\* Up: the PTY input is a b ESC [ A \r
C39_Witness ==
    /\ Len(handlers) = 2
    /\ handlers[1].req.text = <<LetterA, LetterB>>
    /\ handlers[1].req.send_enter
    /\ handlers[2].req.key = "Up"
    /\ handlers[1].pc = "returned"
    /\ handlers[1].resp.ok
    /\ terminal.ptyIn = <<LetterA, LetterB, ESC, 91, 65, CR>>

\* with no other request at the same time the \r follows the text
C39_WitnessAlone ==
    /\ Len(handlers) = 1
    /\ handlers[1].pc = "returned"
    /\ handlers[1].resp.ok
    /\ terminal.ptyIn = <<LetterA, LetterB, CR>>

\* ---------------------------------------------------------------------
\* The tee file under the pump, the pipe_pane handlers and cleanup
\* (SpecPane): readOutput's d.pipePaneFile.Write, handlePipePane's Close and
\* OpenFile, and cleanup's Close, all under d.pipePaneMu.

\* the pump's step calls Write on a tee
TeeWritten == lastOp'.op = "tee write" /\ ~pipePaneFile.isNil

\* cleanup has released d.pipePaneMu and gone on to terminal.Close
CleanupDone == mainPC = "pty"

\* C40: a tee file is never written after it has been closed: under every
\* interleaving of the output pump, the pipe_pane handlers in flight and
\* cleanup, each Write to a tee file is made while that file is open, and
\* once cleanup has finished no tee file is open.
C40_TeeWrittenWhileOpen ==
    /\ [][TeeWritten => ~pipePaneFile.closed]_vars
    /\ [](CleanupDone => openFiles = 0)

\* What holds instead: until cleanup has closed the tee, d.pipePaneFile is
\* nil or an open file, so every Write before that is to an open file; a
\* Write to the closed file adds nothing to it; and at most one tee is open
\* at any time, cleanup or not.
C40_OpenUntilCleanup ==
    /\ [](~CleanupDone /\ ~pipePaneFile.isNil => ~pipePaneFile.closed)
    /\ [][TeeWritten /\ pipePaneFile.closed => files' = files]_vars
    /\ [](openFiles <= 1)

\* Reached: cleanup has closed the tee and left it in d.pipePaneFile, and the
\* pump, which had read a chunk before, has called Write on the closed file.
C40_WriteAfterCleanup ==
    /\ CleanupDone
    /\ lastOp.op = "tee write"
    /\ ~pipePaneFile.isNil /\ pipePaneFile.closed
    /\ openFiles = 0

\* Reached: cleanup has finished and a pipe_pane handler that took the mutex
\* after it has opened and installed a new tee, which nothing closes.
C40_OpenAfterCleanup ==
    /\ CleanupDone
    /\ lastOp.op = "pipe_pane return"
    /\ TeeOpen(pipePaneFile)
    /\ openFiles = 1

====
